---- MODULE Spec2Model ----
(***************************************************************************)
(* The scan ingestion pipeline of qr-inventory.                            *)
(*                                                                         *)
(*   - the payload normalizer  src/src/lib/qr.ts (extractCodeId) and the   *)
(*     second normalizer that POST /api/qr/scan carries with it            *)
(*     (page.tsx 513-554);                                                 *)
(*   - the two scan-record routes POST /api/scan-events and                *)
(*     POST /api/qr/scan over the codes and scan_events tables.            *)
(*                                                                         *)
(* Text is a sequence of one-character strings, so that trimming, case     *)
(* folding, URL parsing and splitting are computed, not assumed.           *)
(***************************************************************************)
EXTENDS Integers, Sequences, FiniteSets, TLC

VARIABLES
    codes,        \* the codes table: a set of rows
    scan_events,  \* the scan_events table: rows in insertion order
    req,          \* the scan-record requests: position, locals and response of each
    now,          \* the clock that now() and new Date() read
    normParts,    \* normalizer harness: the parts the payload is made of
    normIn,       \* normalizer harness: the raw payload under test
    normPc,       \* normalizer harness: "input", "done" after the calls, then "again"
    normLib,      \* normalizer harness: result of lib/qr extractCodeId
    normRoute,    \* normalizer harness: result of the /api/qr/scan extractCodeId
    normValid,    \* normalizer harness: result of lib/qr isValidCodeId
    normAgain,    \* normalizer harness: extractCodeId applied to the id it returned
    normUrl,      \* normalizer harness: result of generateQRUrl on the payload
    normBack,     \* normalizer harness: extractCodeId applied to the generated URL
    page,         \* the scanner page: refs, timers, clock and the scans it accepted
    hook,         \* useScanEvents: scans, isLoading, error and the calls in progress
    history       \* useScanHistory: scans, the queued state updates and the calls made

vars == <<codes, scan_events, req, now, normParts, normIn, normPc, normLib, normRoute,
          normValid, normAgain, normUrl, normBack, page, hook, history>>

----------------------------------------------------------------------------
(* Characters and the string primitives of the JavaScript runtime.         *)

LowerChars == <<"a","b","c","d","e","f","g","h","i","j","k","l","m",
                "n","o","p","q","r","s","t","u","v","w","x","y","z">>
UpperChars == <<"A","B","C","D","E","F","G","H","I","J","K","L","M",
                "N","O","P","Q","R","S","T","U","V","W","X","Y","Z">>
DigitChars == <<"0","1","2","3","4","5","6","7","8","9">>

Range(s) == {s[i] : i \in DOMAIN s}

LowerSet == Range(LowerChars)
UpperSet == Range(UpperChars)
DigitSet == Range(DigitChars)
AlphaSet == LowerSet \cup UpperSet
WhiteSet == {" ", "\t", "\n"}

\* String.prototype.toUpperCase, one character (ASCII payloads).
UpperChar(c) ==
    IF c \in LowerSet
    THEN UpperChars[CHOOSE i \in 1..26 : LowerChars[i] = c]
    ELSE c

LowerChar(c) ==
    IF c \in UpperSet
    THEN LowerChars[CHOOSE i \in 1..26 : UpperChars[i] = c]
    ELSE c

toUpperCase(s) == [i \in 1..Len(s) |-> UpperChar(s[i])]
toLowerCase(s) == [i \in 1..Len(s) |-> LowerChar(s[i])]

\* String.prototype.trim: whitespace is removed at both ends only.
trim(s) ==
    LET keep == {i \in 1..Len(s) : s[i] \notin WhiteSet}
    IN  IF keep = {} THEN <<>>
        ELSE LET lo == CHOOSE i \in keep : \A j \in keep : i <= j
                 hi == CHOOSE i \in keep : \A j \in keep : j <= i
             IN  SubSeq(s, lo, hi)

startsWith(s, p) == Len(s) >= Len(p) /\ SubSeq(s, 1, Len(p)) = p

\* Index of the first character at or after from that lies in set; Len(s)+1 if none.
IndexOfAny(s, set, from) ==
    LET hits == {i \in from..Len(s) : s[i] \in set}
    IN  IF hits = {} THEN Len(s) + 1
        ELSE CHOOSE i \in hits : \A j \in hits : i <= j

\* String.prototype.split(sep) for a one-character separator.
RECURSIVE split(_, _)
split(s, sep) ==
    LET i == IndexOfAny(s, {sep}, 1)
    IN  IF i > Len(s) THEN <<s>>
        ELSE <<SubSeq(s, 1, i - 1)>> \o split(SubSeq(s, i + 1, Len(s)), sep)

\* Array.prototype.filter(segment => segment.length > 0) / filter(Boolean).
filterNonEmpty(segs) == SelectSeq(segs, LAMBDA x : x # <<>>)

RECURSIVE join(_, _)
join(segs, sep) ==
    IF segs = <<>> THEN <<>>
    ELSE IF Len(segs) = 1 THEN segs[1]
    ELSE segs[1] \o <<sep>> \o join(Tail(segs), sep)

----------------------------------------------------------------------------
(* new URL(text) and url.searchParams, as the WHATWG URL parser computes    *)
(* them for the characters the payloads are made of: letters, digits and    *)
(* / ? = & # : . - ! space.  (No payload holds % + \ @ [ ], a numeric host  *)
(* or one of the schemes ftp, ws, wss, file.)                               *)

SchemeChars == AlphaSet \cup DigitSet \cup {"+", "-", "."}

\* Position of the ":" that ends a valid scheme, 0 when the text has none
\* (without a base URL the parser then fails).
SchemeEnd(s) ==
    LET colon == IndexOfAny(s, {":"}, 1)
    IN  IF /\ colon <= Len(s)
           /\ colon >= 2
           /\ s[1] \in AlphaSet
           /\ \A i \in 2..(colon - 1) : s[i] \in SchemeChars
        THEN colon ELSE 0

SpecialSchemes == { <<"h","t","t","p">>, <<"h","t","t","p","s">> }

\* Forbidden host code points among the payload characters.
ForbiddenHostChars == {" ", "#", "/", ":", "?"}

RECURSIVE DigitsValue(_)
DigitsValue(s) ==
    IF s = <<>> THEN 0
    ELSE 10 * DigitsValue(SubSeq(s, 1, Len(s) - 1))
         + ((CHOOSE i \in 1..10 : DigitChars[i] = s[Len(s)]) - 1)

\* host[:port] of an authority; the host of a special scheme is not empty.
AuthorityOk(auth, special) ==
    LET colon == IndexOfAny(auth, {":"}, 1)
        host  == SubSeq(auth, 1, colon - 1)
        port  == SubSeq(auth, colon + 1, Len(auth))
    IN  /\ special => host # <<>>
        /\ \A i \in 1..Len(host) : host[i] \notin ForbiddenHostChars
        /\ \A i \in 1..Len(port) : port[i] \in DigitSet
        /\ DigitsValue(port) <= 65535

\* The path percent-encode set turns a space into %20.
RECURSIVE EncodePath(_)
EncodePath(s) ==
    IF s = <<>> THEN <<>>
    ELSE (IF s[1] = " " THEN <<"%", "2", "0">> ELSE <<s[1]>>) \o EncodePath(Tail(s))

\* Path state: raw segments left to right; "." is dropped, ".." removes the
\* segment before it, and either leaves an empty segment when it comes last.
RECURSIVE PathFold(_, _)
PathFold(raw, acc) ==
    IF raw = <<>> THEN acc
    ELSE LET seg  == raw[1]
             last == Len(raw) = 1
             dot  == seg = <<".">>
             ddot == seg = <<".", ".">>
             popd == IF acc = <<>> THEN acc ELSE SubSeq(acc, 1, Len(acc) - 1)
             nxt  == IF ddot THEN (IF last THEN Append(popd, <<>>) ELSE popd)
                     ELSE IF dot THEN (IF last THEN Append(acc, <<>>) ELSE acc)
                     ELSE Append(acc, EncodePath(seg))
         IN  PathFold(Tail(raw), nxt)

\* pathname of a hierarchical path text ("" or starting with "/").
PathName(p, special) ==
    IF p = <<>> THEN (IF special THEN <<"/">> ELSE <<>>)
    ELSE <<"/">> \o join(PathFold(split(Tail(p), "/"), <<>>), "/")

URLFailure == [ok |-> FALSE, scheme |-> <<>>, pathname |-> <<>>, query |-> <<>>]
URLRecord(scheme, pathname, query) ==
    [ok |-> TRUE, scheme |-> scheme, pathname |-> pathname, query |-> query]

\* Number of "/" the text begins with.
LeadingSlashes(s) ==
    IF s = <<>> THEN 0 ELSE IndexOfAny(s, Range(s) \ {"/"}, 1) - 1

\* Host state and path state: the authority ends at the first "/".
HostAndPath(special, scheme, query, s, authEnd) ==
    IF AuthorityOk(SubSeq(s, 1, authEnd - 1), special)
    THEN URLRecord(scheme, PathName(SubSeq(s, authEnd, Len(s)), special), query)
    ELSE URLFailure

\* After the scheme: a special scheme skips every slash and then reads an
\* authority; another scheme reads one after "//", a path after "/", and an
\* opaque path (kept as written) otherwise.
AfterSlashes(special, scheme, hier, query, slashes) ==
    IF special \/ slashes >= 2
    THEN HostAndPath(special, scheme, query,
                     SubSeq(hier, (IF special THEN slashes ELSE 2) + 1, Len(hier)),
                     IndexOfAny(SubSeq(hier, (IF special THEN slashes ELSE 2) + 1,
                                       Len(hier)), {"/"}, 1))
    ELSE IF slashes = 1 THEN URLRecord(scheme, PathName(hier, FALSE), query)
    ELSE URLRecord(scheme, hier, query)

\* The query starts at the first "?" of the text before the fragment.
SplitQuery(scheme, noFrag, qm) ==
    AfterSlashes(scheme \in SpecialSchemes, scheme, SubSeq(noFrag, 1, qm - 1),
                 SubSeq(noFrag, qm + 1, Len(noFrag)),
                 LeadingSlashes(SubSeq(noFrag, 1, qm - 1)))

\* The fragment starts at the first "#".
DropFragment(scheme, rest, hash) ==
    SplitQuery(scheme, SubSeq(rest, 1, hash - 1),
               IndexOfAny(SubSeq(rest, 1, hash - 1), {"?"}, 1))

\* Scheme state: without a scheme (and without a base URL) parsing fails.
AfterScheme(s, colon) ==
    IF colon = 0 THEN URLFailure
    ELSE DropFragment(toLowerCase(SubSeq(s, 1, colon - 1)),
                      SubSeq(s, colon + 1, Len(s)),
                      IndexOfAny(SubSeq(s, colon + 1, Len(s)), {"#"}, 1))

SchemeOf(s) == AfterScheme(s, SchemeEnd(s))

\* new URL(text): [ok, scheme, pathname, query] ; ok = FALSE when it throws.
\* The parser first removes every tab and newline from the text.
ParseURL(text) == SchemeOf(SelectSeq(text, LAMBDA c : c \notin {"\t", "\n"}))

\* url.searchParams.get(name): the value of the first pair with that name.
SearchParamsGet(query, name) ==
    LET pairs == filterNonEmpty(split(query, "&"))
        key(p) == SubSeq(p, 1, IndexOfAny(p, {"="}, 1) - 1)
        val(p) == SubSeq(p, IndexOfAny(p, {"="}, 1) + 1, Len(p))
        hits  == {i \in 1..Len(pairs) : key(pairs[i]) = name}
    IN  IF hits = {} THEN [present |-> FALSE, value |-> <<>>]
        ELSE [present |-> TRUE,
              value |-> val(pairs[CHOOSE i \in hits : \A j \in hits : i <= j])]

----------------------------------------------------------------------------
(* src/src/lib/qr.ts : the payload normalizer.                              *)

CODE_ID_MIN_LENGTH == 6
CODE_ID_MAX_LENGTH == 32

\* CODE_ID_REGEX = /^[A-Z0-9]+$/
CODE_ID_REGEX(s) == s # <<>> /\ \A i \in 1..Len(s) : s[i] \in UpperSet \cup DigitSet

HttpPrefix  == <<"h","t","t","p",":","/","/">>
HttpsPrefix == <<"h","t","t","p","s",":","/","/">>
CodeParam   == <<"c","o","d","e">>

\* The messages of the errors extractCodeId throws.
ErrEmpty      == "Invalid QR payload: empty or not a string"
ErrEmptyTrim  == "Invalid QR payload: empty after trimming"
ErrNoSegment  == "Invalid QR URL: no path segments or query parameter found"
ErrUrlParse   == "Invalid QR URL: unable to parse URL"
ErrTooShort   == "Invalid code ID: too short (minimum 6 characters)"
ErrTooLong    == "Invalid code ID: too long (maximum 32 characters)"
ErrBadChars   == "Invalid code ID: must contain only uppercase letters (A-Z) and numbers (0-9)"

Accept(id)    == [ok |-> TRUE,  id |-> id,   reason |-> ""]
Reject(why)   == [ok |-> FALSE, id |-> <<>>, reason |-> why]

ValidateCodeIdNoMax(codeId) ==
    IF Len(codeId) < CODE_ID_MIN_LENGTH THEN Reject(ErrTooShort)
    ELSE IF ~CODE_ID_REGEX(codeId) THEN Reject(ErrBadChars)
    ELSE Accept(codeId)

ValidateCodeIdCharsFirst(codeId) ==
    IF ~CODE_ID_REGEX(codeId) THEN Reject(ErrBadChars)
    ELSE IF Len(codeId) < CODE_ID_MIN_LENGTH THEN Reject(ErrTooShort)
    ELSE IF Len(codeId) > CODE_ID_MAX_LENGTH THEN Reject(ErrTooLong)
    ELSE Accept(codeId)

ValidateCodeIdExclusiveMax(codeId) ==
    IF Len(codeId) < CODE_ID_MIN_LENGTH THEN Reject(ErrTooShort)
    ELSE IF Len(codeId) >= CODE_ID_MAX_LENGTH THEN Reject(ErrTooLong)
    ELSE IF ~CODE_ID_REGEX(codeId) THEN Reject(ErrBadChars)
    ELSE Accept(codeId)

\* Lines 79-98: the length bounds, then the character class.
ValidateCodeId(codeId) ==
    IF Len(codeId) < CODE_ID_MIN_LENGTH THEN Reject(ErrTooShort)
    ELSE IF Len(codeId) > CODE_ID_MAX_LENGTH THEN Reject(ErrTooLong)
    ELSE IF ~CODE_ID_REGEX(codeId) THEN Reject(ErrBadChars)
    ELSE Accept(codeId)

CandidateOfFirstSegment(url, queryCode, pathSegments) ==
    IF ~url.ok THEN Reject(ErrUrlParse)
    ELSE IF queryCode.present /\ queryCode.value # <<>>
         THEN Accept(toUpperCase(trim(queryCode.value)))
    ELSE IF Len(pathSegments) = 0 THEN Reject(ErrNoSegment)
    ELSE Accept(toUpperCase(trim(pathSegments[1])))

\* Lines 49-65: the candidate of a parsed URL: the code parameter when it is
\* not empty, the last path segment otherwise.
CandidateOf(url, queryCode, pathSegments) ==
    IF ~url.ok THEN Reject(ErrUrlParse)
    ELSE IF queryCode.present /\ queryCode.value # <<>>
         THEN Accept(toUpperCase(trim(queryCode.value)))
    ELSE IF Len(pathSegments) = 0 THEN Reject(ErrNoSegment)
    ELSE Accept(toUpperCase(trim(pathSegments[Len(pathSegments)])))

UrlPartsOf(url) ==
    CandidateOf(url, SearchParamsGet(url.query, CodeParam),
                filterNonEmpty(split(url.pathname, "/")))

\* Lines 45-73: new URL(trimmed) and the candidate, or the error thrown.
UrlCandidate(trimmed) == UrlPartsOf(ParseURL(trimmed))

ValidateCandidate(cand) == IF cand.ok THEN ValidateCodeId(cand.id) ELSE cand

ExtractTrimmedUrlOnly(trimmed) ==
    IF trimmed = <<>> THEN Reject(ErrEmptyTrim)
    ELSE ValidateCandidate(UrlCandidate(trimmed))

\* Lines 35-98, raw trimmed.
ExtractTrimmed(trimmed) ==
    IF trimmed = <<>> THEN Reject(ErrEmptyTrim)
    ELSE IF startsWith(trimmed, HttpPrefix) \/ startsWith(trimmed, HttpsPrefix)
         THEN ValidateCandidate(UrlCandidate(trimmed))
         ELSE ValidateCodeId(toUpperCase(trimmed))

extractCodeIdNoTrim(raw) ==
    IF raw = <<>> THEN Reject(ErrEmpty) ELSE ExtractTrimmed(raw)

\* extractCodeId(raw) of lib/qr.ts: Accept(id) when it returns, Reject(message)
\* when it throws.
extractCodeId(raw) ==
    IF raw = <<>> THEN Reject(ErrEmpty) ELSE ExtractTrimmed(trim(raw))

isValidCodeIdAsIs(codeId) == ValidateCodeId(codeId).ok

\* isValidCodeId(codeId) of lib/qr.ts.
isValidCodeId(codeId) == extractCodeId(codeId).ok

\* The default of generateQRUrl's baseUrl.
DefaultBaseUrl == <<"h","t","t","p","s",":","/","/","a","p","p",".",
                    "e","x","a","m","p","l","e",".","c","o","m">>

Url(text)  == [ok |-> TRUE,  url |-> text, reason |-> ""]
NoUrl(why) == [ok |-> FALSE, url |-> <<>>, reason |-> why]

generateQRUrlUnvalidated(codeId, baseUrl) ==
    Url(baseUrl \o <<"/", "s", "/">> \o codeId)

\* generateQRUrl(codeId, baseUrl) of lib/qr.ts: Url(text) when it returns,
\* NoUrl(message) when extractCodeId throws.
generateQRUrl(codeId, baseUrl) ==
    LET validatedId == extractCodeId(codeId)
    IN  IF validatedId.ok
        THEN Url(baseUrl \o <<"/", "s", "/">> \o validatedId.id)
        ELSE NoUrl(validatedId.reason)

----------------------------------------------------------------------------
(* page.tsx 513-554 : the normalizer POST /api/qr/scan is compiled with.    *)

ROUTE_ID_MIN_LENGTH == 6
ROUTE_ID_MAX_LENGTH == 12

\* isValidCodeId(str): /^[A-Z0-9]{6,12}$/ on str.toUpperCase().
routeIsValidCodeId(str) ==
    LET normalized == toUpperCase(str)
    IN  /\ Len(normalized) >= ROUTE_ID_MIN_LENGTH
        /\ Len(normalized) <= ROUTE_ID_MAX_LENGTH
        /\ \A i \in 1..Len(normalized) : normalized[i] \in UpperSet \cup DigitSet

ErrRouteExtract == "Could not extract valid code ID from payload"

\* Lines 521-541: the code parameter, then the last path segment, then the
\* whole text, each only if it looks like a code id.
RouteCandidate(trimmed, url, codeParam, pathSegments) ==
    IF url.ok /\ codeParam.present /\ codeParam.value # <<>>
       /\ routeIsValidCodeId(codeParam.value)
    THEN Accept(toUpperCase(codeParam.value))
    ELSE IF url.ok /\ Len(pathSegments) > 0
            /\ routeIsValidCodeId(pathSegments[Len(pathSegments)])
    THEN Accept(toUpperCase(pathSegments[Len(pathSegments)]))
    ELSE IF routeIsValidCodeId(trimmed)
    THEN Accept(toUpperCase(trimmed))
    ELSE Reject(ErrRouteExtract)

RouteUrlParts(trimmed, url) ==
    RouteCandidate(trimmed, url, SearchParamsGet(url.query, CodeParam),
                   filterNonEmpty(split(url.pathname, "/")))

RouteExtractTrimmed(trimmed) == RouteUrlParts(trimmed, ParseURL(trimmed))

\* extractCodeId(raw) of the route: Accept(id), or Reject when it returns null.
routeExtractCodeId(raw) == RouteExtractTrimmed(trim(raw))

----------------------------------------------------------------------------
(* The payloads the normalizers are run on: plain identifiers of every      *)
(* length up to MaxLen, padded with whitespace, and URLs put together from  *)
(* a scheme, a host, a path and a query.                                    *)

MaxLen == 40   \* longest plain candidate
MaxPad == 1    \* most whitespace characters on one side

Cycle(pat, n) == [i \in 1..n |-> pat[((i - 1) % Len(pat)) + 1]]
Pad(ch, k) == [i \in 1..k |-> ch]

LowerPattern == <<"a", "6", "f", "3", "h", "w", "7", "l">>
UpperPattern == <<"A", "6", "F", "3", "H", "W", "7", "L">>
DashPattern  == <<"a", "b", "-", "1", "2">>
SpacePattern == <<"n", "o", "t", " ", "a", " ", "v", "a", "l", "i", "d", " ",
                  "c", "o", "d", "e", "!", "!">>

Parts(kind, padL, padR, core, scheme, host, path, qform, qvalue) ==
    [kind |-> kind, padL |-> padL, padR |-> padR, core |-> core,
     scheme |-> scheme, host |-> host, path |-> path,
     qform |-> qform, qvalue |-> qvalue]

NoParts == Parts("none", 0, 0, <<>>, <<>>, <<>>, <<>>, "", <<>>)

PlainParts ==
    { Parts("plain", i, j, Cycle(pat, n), <<>>, <<>>, <<>>, "", <<>>) :
        i \in 0..MaxPad, j \in 0..MaxPad, n \in 0..MaxLen,
        pat \in {LowerPattern, UpperPattern, DashPattern, SpacePattern} }

UrlSchemes == { HttpPrefix, HttpsPrefix,
                <<"H", "T", "T", "P", "S", ":", "/", "/">> }
UrlHosts   == { <<"h", "o", "s", "t">>, <<>>, <<"h", "o", " ", "s", "t">> }

\* Path segments that may stand last: valid ids of 8 and 13 characters in
\* either case, and one that is too short.
PathIds == { <<"B", "7", "G", "4", "J", "X", "9", "M">>,
             <<"b", "7", "g", "4", "j", "x", "9", "m">>,
             Cycle(UpperPattern, 13),
             <<"a", "b", "c">> }

PathForms(id) ==
    { <<"/", "s", "/">> \o id,
      <<"/", "s", "/">> \o id \o <<"/">>,
      <<"/", "/">> \o id \o <<"/", "/">>,
      <<"/">> \o id \o <<"/", ".", ".">> }

UrlPaths == { <<>>, <<"/">> } \cup UNION { PathForms(id) : id \in PathIds }

\* Values of the code parameter.
CodeValues == { <<"c", "8", "h", "5", "k", "y", "0", "n">>,
                <<"a", "b", "-", "1", "2">>,
                Cycle(LowerPattern, 13),
                <<" ", "c", "8", "h", "5", "k", "y", "0", "n">>,
                <<>> }

QueryForms == {"none", "code", "other-and-code", "Code", "empty-then-code",
               "code-and-fragment"}

QueryText(qform, v) ==
    CASE qform = "none"  -> <<>>
      [] qform = "code"  -> <<"?", "c", "o", "d", "e", "=">> \o v
      [] qform = "other-and-code" ->
             <<"?", "x", "=", "1", "&", "c", "o", "d", "e", "=">> \o v
      [] qform = "Code"  -> <<"?", "C", "o", "d", "e", "=">> \o v
      [] qform = "empty-then-code" ->
             <<"?", "c", "o", "d", "e", "=", "&", "c", "o", "d", "e", "=">> \o v
      [] qform = "code-and-fragment" ->
             <<"?", "c", "o", "d", "e", "=">> \o v \o <<"#", "s", "/", "x">>

UrlParts ==
    { Parts("url", 0, 0, <<>>, sc, h, pa, qf, v) :
        sc \in UrlSchemes, h \in UrlHosts, pa \in UrlPaths,
        qf \in QueryForms, v \in CodeValues }

\* The text of a payload.
Build(parts) ==
    IF parts.kind = "url"
    THEN parts.scheme \o parts.host \o parts.path
         \o QueryText(parts.qform, parts.qvalue)
    ELSE Pad(" ", parts.padL) \o parts.core \o Pad("\t", parts.padR)

----------------------------------------------------------------------------
(* The store: the tables of SUPABASE_SETUP.md.                              *)

MaxRequests == 2   \* scan-record requests of one run
MaxTime     == 1   \* ticks of the clock

ReqIds == 1..MaxRequests

NoUser == ""                 \* auth() returned no userId
Users  == {"u1", "u2"}

NoText == <<>>

NoRow == [id |-> NoText, system_acronym |-> "", size |-> "", year |-> 0,
          owner_user_id |-> "", created_at |-> 0]

NoEvent == [id |-> 0, code_id |-> NoText, scanned_at |-> 0]

\* new Date().getFullYear(): one tick of the clock is one year.
getFullYear(t) == 2025 + t

SelectCodeOwned(codeId, userId) ==
    {c \in codes : c.id = codeId /\ c.owner_user_id = userId}

\* .from('codes').select('*').eq('id', codeId).single()
SelectCode(codeId, userId) == {c \in codes : c.id = codeId}

\* .from('codes').select('*').eq('id', codeId).eq('owner_user_id', userId).single()
SelectOwnedCode(codeId, userId) ==
    {c \in codes : c.id = codeId /\ c.owner_user_id = userId}

\* id TEXT PRIMARY KEY
PrimaryKeyFree(table, id) == \A c \in table : c.id # id

\* INSERT INTO codes ... RETURNING *: rejected when the id is present;
\* created_at is filled by DEFAULT now().
CodesInsertNoKey(table, row, t) ==
    [ok |-> TRUE, row |-> [row EXCEPT !.created_at = t],
     table |-> table \cup {[row EXCEPT !.created_at = t]}]
CodesUpsert(table, row, t) ==
    [ok |-> TRUE, row |-> [row EXCEPT !.created_at = t],
     table |-> {c \in table : c.id # row.id} \cup {[row EXCEPT !.created_at = t]}]
CodesInsert(table, row, t) ==
    IF PrimaryKeyFree(table, row.id)
    THEN [ok |-> TRUE, row |-> [row EXCEPT !.created_at = t],
          table |-> table \cup {[row EXCEPT !.created_at = t]}]
    ELSE [ok |-> FALSE, row |-> NoRow, table |-> table]

\* code_id TEXT NOT NULL REFERENCES codes(id)
ForeignKeyOk(table, codeId) == \E c \in table : c.id = codeId

\* gen_random_uuid(): an id no row of the table has.
gen_random_uuid(events) == Len(events) + 1

\* INSERT INTO scan_events: id DEFAULT gen_random_uuid(), scanned_at DEFAULT now().
ScanEventsInsertDedup(events, uuid, codeId, userId, rawPayload, t) ==
    SelectSeq(events, LAMBDA e : ~(e.code_id = codeId /\ e.scanned_by_user_id = userId))
    \o << [id |-> uuid, code_id |-> codeId, scanned_by_user_id |-> userId,
           scanned_at |-> t, raw_payload |-> rawPayload] >>
ScanEventsInsert(events, uuid, codeId, userId, rawPayload, t) ==
    Append(events, [id |-> uuid, code_id |-> codeId, scanned_by_user_id |-> userId,
                    scanned_at |-> t, raw_payload |-> rawPayload])

----------------------------------------------------------------------------
(* The request bodies the clients send.                                     *)

Body(kind, payloadType, rawPayload, size, systemAcronym) ==
    [kind |-> kind, payloadType |-> payloadType, rawPayload |-> rawPayload,
     size |-> size, systemAcronym |-> systemAcronym]

\* " a6f3hw7l" with size and systemAcronym supplied
BodyPlain == Body("json", "string",
    <<" ", "a", "6", "f", "3", "h", "w", "7", "l">>, "M", "ACME")
\* "https://host/s/A6F3HW7L?code=ab-12"
BodyUrlBadParam == Body("json", "string",
    <<"h", "t", "t", "p", "s", ":", "/", "/", "h", "o", "s", "t", "/", "s", "/",
      "A", "6", "F", "3", "H", "W", "7", "L", "?", "c", "o", "d", "e", "=",
      "a", "b", "-", "1", "2">>, "", "")
\* "B7G4JX9M0123Z" (13 characters)
BodyLong == Body("json", "string",
    <<"B", "7", "G", "4", "J", "X", "9", "M", "0", "1", "2", "3", "Z">>, "", "")
\* "not a valid code!!"
BodyInvalid == Body("json", "string",
    <<"n", "o", "t", " ", "a", " ", "v", "a", "l", "i", "d", " ", "c", "o", "d",
      "e", "!", "!">>, "", "")
\* {} : no rawPayload
BodyMissing == Body("json", "missing", NoText, "", "")
\* a body that is not JSON
BodyUnparseable == Body("unparseable", "missing", NoText, "", "")

Bodies == {BodyPlain, BodyUrlBadParam, BodyLong, BodyInvalid, BodyMissing,
           BodyUnparseable}

\* What a client may send: any body by a signed-in user, and requests without
\* a session.
RequestInputs ==
    [userId : {"u1"}, body : Bodies]
    \cup [userId : {"u2", NoUser}, body : {BodyPlain}]

----------------------------------------------------------------------------
(* The clients: the scanner page and the useScanEvents hook, before their   *)
(* first call.                                                              *)

MaxTasks    == 2    \* calls of recordScan and refreshScans
MaxInFlight == 2    \* calls in progress at one time
MaxScans  == 3      \* scan results the scanner page accepts
ClockStep == 1000   \* milliseconds between two looks at the page's clock
MaxClock  == 2000   \* milliseconds the scanner page is watched for

TaskIds == 1..MaxTasks

NoTimer == 0   \* scanTimeoutRef.current = null

\* useRef(null), useState(false): the page before its first scan result.
\* isRecording is the state; rendered is the isRecording of the render whose
\* handleScan the reader calls; pending counts the calls of recordScan that
\* have not settled.
IdlePage ==
    [variant |-> "", clock |-> 0, lastScanRef |-> "", scanTimeoutRef |-> NoTimer,
     timers |-> {}, timerCount |-> 0, isRecording |-> FALSE, rendered |-> FALSE,
     pending |-> 0, calls |-> <<>>]

IdleTask ==
    [pc |-> "idle", kind |-> "", rawPayload |-> NoText, status |-> 0,
     code |-> NoRow, scanEvent |-> NoEvent, listStatus |-> 0, data |-> <<>>]

\* useState([]), useState(true), useState(null)
IdleHook ==
    [scans |-> <<>>, isLoading |-> TRUE, error |-> "",
     task |-> [t \in TaskIds |-> IdleTask]]

\* useScanHistory before any call: useState([]) and nothing queued.
IdleHistory == [scans |-> <<>>, queue |-> <<>>, uuids |-> 0, calls |-> <<>>]

clientVars == <<page, hook, history>>

----------------------------------------------------------------------------
(* The scan-record requests.                                                *)

IdleRequest ==
    [pc |-> "idle", route |-> "", userId |-> NoUser, body |-> BodyMissing,
     codeId |-> NoText, year |-> 0, codeRecord |-> NoRow,
     status |-> 0, error |-> "", code |-> NoRow, scanEvent |-> NoEvent,
     existed |-> FALSE, conflict |-> FALSE, fault |-> FALSE, created |-> FALSE,
     calls |-> <<>>, list |-> <<>>]

\* NextResponse.json({ error }, { status })
Respond(q, status, error) == [q EXCEPT !.pc = "done", !.status = status, !.error = error]

\* The request after it has issued a call to the store.
Called(q, call) == [q EXCEPT !.calls = Append(@, call)]

\* The code object of a success response: id, system_acronym, size, year.
PublicCode(row) == [row EXCEPT !.owner_user_id = "", !.created_at = 0]

Init ==
    /\ codes = {}
    /\ scan_events = <<>>
    /\ req = [r \in ReqIds |-> IdleRequest]
    /\ now = 0
    /\ normParts = NoParts
    /\ normIn = NoText
    /\ normPc = "off"
    /\ normLib = Reject("")
    /\ normRoute = Reject("")
    /\ normValid = FALSE
    /\ normAgain = Reject("")
    /\ normUrl = NoUrl("")
    /\ normBack = Reject("")
    /\ history = IdleHistory
    /\ page = IdlePage
    /\ hook = IdleHook

normVars == <<normParts, normIn, normPc, normLib, normRoute, normValid, normAgain,
             normUrl, normBack>>

\* The response of a finished request is delivered before the next step of
\* any other request is looked at.
Delivered == \A r \in ReqIds : req[r].pc # "done"

\* A request arrives: requests are numbered in the order they arrive.
Arrives(r) ==
    /\ Delivered
    /\ req[r].pc = "idle"
    /\ \A j \in 1..(r - 1) : req[j].pc # "idle"

\* The request at position pc of route.
At(r, route, pc) == Delivered /\ req[r].pc = pc /\ req[r].route = route

ClosedRequest == [IdleRequest EXCEPT !.pc = "closed"]

\* The response has been sent: the handler's locals are gone.
Close(r) ==
    /\ req[r].pc = "done"
    /\ req' = [req EXCEPT ![r] = ClosedRequest]
    /\ UNCHANGED <<codes, scan_events, now, normVars, clientVars>>

ScanEventsChecksNoAuth(q, ex) ==
    IF q.body.kind # "json" THEN Respond(q, 500, "Internal server error")
    ELSE IF q.body.payloadType # "string" \/ q.body.rawPayload = NoText
         THEN Respond(q, 400, "Missing or invalid rawPayload")
    ELSE IF ~ex.ok THEN Respond(q, 400, ex.reason)
    ELSE [q EXCEPT !.pc = "lookup", !.codeId = ex.id,
                   !.year = getFullYear(now),
                   !.existed = ~PrimaryKeyFree(codes, ex.id)]

\* POST /api/scan-events, lines 741-779: auth, body, payload, extractCodeId.
ScanEventsChecks(q, ex) ==
    IF q.userId = NoUser THEN Respond(q, 401, "Unauthorized")
    ELSE IF q.body.kind # "json" THEN Respond(q, 500, "Internal server error")
    ELSE IF q.body.payloadType # "string" \/ q.body.rawPayload = NoText
         THEN Respond(q, 400, "Missing or invalid rawPayload")
    ELSE IF ~ex.ok THEN Respond(q, 400, ex.reason)
    ELSE [q EXCEPT !.pc = "lookup", !.codeId = ex.id,
                   !.year = getFullYear(now),
                   !.existed = ~PrimaryKeyFree(codes, ex.id)]

ScanEventsSelectNoReturn(r, q) ==
    IF q.pc = "done" THEN req' = [req EXCEPT ![r] = q]
    ELSE \/ req' = [req EXCEPT ![r] = [Called(q, "lookup") EXCEPT !.pc = "record", !.fault = TRUE]]
         \/ req' = [req EXCEPT ![r] =
                      IF Cardinality(SelectCode(q.codeId, q.userId)) = 1
                      THEN [Called(q, "lookup") EXCEPT !.pc = "record",
                                     !.codeRecord = CHOOSE c \in SelectCode(q.codeId, q.userId) : TRUE]
                      ELSE [Called(q, "lookup") EXCEPT !.pc = "insert"]]

\* Lines 783-803: the lookup by id, its error branch and the reuse branch.
ScanEventsSelect(r, q) ==
    IF q.pc = "done" THEN req' = [req EXCEPT ![r] = q]
    ELSE \/ req' = [req EXCEPT ![r] =
                      Respond([Called(q, "lookup") EXCEPT !.fault = TRUE], 500,
                              "Database error while fetching code")]
         \/ req' = [req EXCEPT ![r] =
                      IF Cardinality(SelectCode(q.codeId, q.userId)) = 1
                      THEN [Called(q, "lookup") EXCEPT !.pc = "record",
                                     !.codeRecord = CHOOSE c \in SelectCode(q.codeId, q.userId) : TRUE]
                      ELSE [Called(q, "lookup") EXCEPT !.pc = "insert"]]

\* A request arrives and runs up to the answer of its first store call.
ScanEventsLookup(r) ==
    /\ Arrives(r)
    /\ \E in \in RequestInputs :
         ScanEventsSelect(r, ScanEventsChecks(
                                [req[r] EXCEPT !.route = "scan-events",
                                               !.userId = in.userId,
                                               !.body = in.body],
                                extractCodeId(in.body.rawPayload)))
    /\ UNCHANGED <<codes, scan_events, now, normVars, clientVars>>

ScanEventsNewCodeRaw(q) ==
    [id |-> q.body.rawPayload, system_acronym |-> "TMGS", size |-> "unspecified",
     year |-> q.year, owner_user_id |-> q.userId, created_at |-> 0]

\* The row lines 807-813 insert.
ScanEventsNewCode(q) ==
    [id |-> q.codeId, system_acronym |-> "TMGS", size |-> "unspecified",
     year |-> q.year, owner_user_id |-> q.userId, created_at |-> 0]

\* Lines 805-826: the answer of the insert into codes.
ScanEventsInserted(r, res) ==
    IF res.ok
    THEN /\ codes' = res.table
         /\ req' = [req EXCEPT ![r] = [Called(@, "insert") EXCEPT !.pc = "record", !.created = TRUE,
                                                !.codeRecord = res.row]]
    ELSE /\ UNCHANGED codes
         /\ req' = [req EXCEPT ![r] = Respond([Called(@, "insert") EXCEPT !.conflict = TRUE], 500,
                                              "Database error while creating code")]

\* Lines 805-826: the insert into codes and its error branch.
ScanEventsInsertCode(r) ==
    /\ At(r, "scan-events", "insert")
    /\ \/ /\ req' = [req EXCEPT ![r] =
                       Respond([Called(@, "insert") EXCEPT !.fault = TRUE], 500,
                               "Database error while creating code")]
          /\ UNCHANGED codes
       \/ ScanEventsInserted(r, CodesInsert(codes, ScanEventsNewCode(req[r]), now))
    /\ UNCHANGED <<scan_events, now, normVars, clientVars>>

ScanEventsRecordStartTime(r) ==
    /\ At(r, "scan-events", "record")
    /\ \/ /\ req' = [req EXCEPT ![r] =
                       Respond([Called(@, "event") EXCEPT !.fault = TRUE], 500,
                               "Database error while recording scan")]
          /\ UNCHANGED scan_events
       \/ /\ ForeignKeyOk(codes, req[r].codeId)
          /\ scan_events' = ScanEventsInsert(scan_events, gen_random_uuid(scan_events),
                               req[r].codeId, req[r].userId,
                               req[r].body.rawPayload, req[r].year - getFullYear(0))
          /\ req' = [req EXCEPT ![r] =
                       [Respond(Called(@, "event"), 200, "") EXCEPT
                          !.code = PublicCode(req[r].codeRecord),
                          !.scanEvent = [id |-> gen_random_uuid(scan_events),
                                         code_id |-> req[r].codeId,
                                         scanned_at |-> req[r].year - getFullYear(0)]]]
    /\ UNCHANGED <<codes, now, normVars, clientVars>>

ScanEventsRecordRetry(r) ==
    /\ At(r, "scan-events", "record")
    /\ \/ /\ req' = [req EXCEPT ![r] = [Called(@, "event") EXCEPT !.fault = TRUE]]
          /\ UNCHANGED scan_events
       \/ /\ ForeignKeyOk(codes, req[r].codeId)
          /\ scan_events' = ScanEventsInsert(scan_events, gen_random_uuid(scan_events),
                               req[r].codeId, req[r].userId,
                               req[r].body.rawPayload, now)
          /\ req' = [req EXCEPT ![r] =
                       [Respond(Called(@, "event"), 200, "") EXCEPT
                          !.code = PublicCode(req[r].codeRecord),
                          !.scanEvent = [id |-> gen_random_uuid(scan_events),
                                         code_id |-> req[r].codeId,
                                         scanned_at |-> now]]]
    /\ UNCHANGED <<codes, now, normVars, clientVars>>

ScanEventsRecordRollback(r) ==
    /\ At(r, "scan-events", "record")
    /\ \/ /\ req' = [req EXCEPT ![r] =
                       Respond([Called(@, "event") EXCEPT !.fault = TRUE], 500,
                               "Database error while recording scan")]
          /\ codes' = IF req[r].created THEN codes \ {req[r].codeRecord} ELSE codes
          /\ UNCHANGED scan_events
       \/ /\ ForeignKeyOk(codes, req[r].codeId)
          /\ scan_events' = ScanEventsInsert(scan_events, gen_random_uuid(scan_events),
                               req[r].codeId, req[r].userId,
                               req[r].body.rawPayload, now)
          /\ req' = [req EXCEPT ![r] =
                       [Respond(Called(@, "event"), 200, "") EXCEPT
                          !.code = PublicCode(req[r].codeRecord),
                          !.scanEvent = [id |-> gen_random_uuid(scan_events),
                                         code_id |-> req[r].codeId,
                                         scanned_at |-> now]]]
          /\ UNCHANGED codes
    /\ UNCHANGED <<now, normVars, clientVars>>

\* Lines 828-860: the insert into scan_events, its error branch, the response.
ScanEventsRecord(r) ==
    /\ At(r, "scan-events", "record")
    /\ \/ /\ req' = [req EXCEPT ![r] =
                       Respond([Called(@, "event") EXCEPT !.fault = TRUE], 500,
                               "Database error while recording scan")]
          /\ UNCHANGED scan_events
       \/ /\ ~ForeignKeyOk(codes, req[r].codeId)
          /\ req' = [req EXCEPT ![r] =
                       Respond(Called(@, "event"), 500, "Database error while recording scan")]
          /\ UNCHANGED scan_events
       \/ /\ ForeignKeyOk(codes, req[r].codeId)
          /\ scan_events' = ScanEventsInsert(scan_events, gen_random_uuid(scan_events),
                               req[r].codeId, req[r].userId,
                               req[r].body.rawPayload, now)
          /\ req' = [req EXCEPT ![r] =
                       [Respond(Called(@, "event"), 200, "") EXCEPT
                          !.code = PublicCode(req[r].codeRecord),
                          !.scanEvent = [id |-> gen_random_uuid(scan_events),
                                         code_id |-> req[r].codeId,
                                         scanned_at |-> now]]]
    /\ UNCHANGED <<codes, now, normVars, clientVars>>

\* The clock advances.
Tick ==
    /\ Delivered
    /\ now < MaxTime
    /\ now' = now + 1
    /\ UNCHANGED <<codes, scan_events, req, normVars, clientVars>>

\* POST /api/qr/scan, lines 562-612: auth, body, payload, extractCodeId.
QrScanChecks(q, ex) ==
    IF q.userId = NoUser THEN Respond(q, 401, "Unauthorized - please sign in")
    ELSE IF q.body.kind # "json" THEN Respond(q, 400, "Invalid JSON body")
    ELSE IF q.body.payloadType # "string" \/ q.body.rawPayload = NoText
         THEN Respond(q, 400, "Missing required field: rawPayload (string)")
    ELSE IF ~ex.ok THEN Respond(q, 400, ex.reason)
    ELSE [q EXCEPT !.pc = "lookup", !.codeId = ex.id,
                   !.year = getFullYear(now),
                   !.existed = ~PrimaryKeyFree(codes, ex.id)]

\* Lines 617-643: the lookup by id and owner, its error branch, the reuse branch.
QrScanSelect(r, q) ==
    IF q.pc = "done" THEN req' = [req EXCEPT ![r] = q]
    ELSE \/ req' = [req EXCEPT ![r] =
                      Respond([Called(q, "lookup") EXCEPT !.fault = TRUE], 500,
                              "Database error while checking for existing code")]
         \/ req' = [req EXCEPT ![r] =
                      IF Cardinality(SelectOwnedCode(q.codeId, q.userId)) = 1
                      THEN [Called(q, "lookup") EXCEPT !.pc = "record",
                                     !.codeRecord = CHOOSE c \in SelectOwnedCode(q.codeId, q.userId) : TRUE]
                      ELSE [Called(q, "lookup") EXCEPT !.pc = "insert"]]

\* A request arrives and runs up to the answer of its first store call.
QrScanLookup(r) ==
    /\ Arrives(r)
    /\ \E in \in RequestInputs :
         QrScanSelect(r, QrScanChecks(
                            [req[r] EXCEPT !.route = "qr-scan",
                                           !.userId = in.userId,
                                           !.body = in.body],
                            routeExtractCodeId(in.body.rawPayload)))
    /\ UNCHANGED <<codes, scan_events, now, normVars, clientVars>>

\* Lines 610-611 and 647-653: the row the route inserts.
QrScanNewCode(q) ==
    [id |-> q.codeId,
     system_acronym |-> IF q.body.systemAcronym # "" THEN q.body.systemAcronym
                        ELSE "TMGS",
     size |-> IF q.body.size # "" THEN q.body.size ELSE "unspecified",
     year |-> q.year, owner_user_id |-> q.userId, created_at |-> 0]

\* Lines 645-669: the answer of the insert into codes.
QrScanInserted(r, res) ==
    IF res.ok
    THEN /\ codes' = res.table
         /\ req' = [req EXCEPT ![r] = [Called(@, "insert") EXCEPT !.pc = "record", !.created = TRUE,
                                                !.codeRecord = res.row]]
    ELSE /\ UNCHANGED codes
         /\ req' = [req EXCEPT ![r] = Respond([Called(@, "insert") EXCEPT !.conflict = TRUE], 500,
                                              "Database error while creating code record")]

\* Lines 645-669: the insert into codes and its error branch.
QrScanInsertCode(r) ==
    /\ At(r, "qr-scan", "insert")
    /\ \/ /\ req' = [req EXCEPT ![r] =
                       Respond([Called(@, "insert") EXCEPT !.fault = TRUE], 500,
                               "Database error while creating code record")]
          /\ UNCHANGED codes
       \/ QrScanInserted(r, CodesInsert(codes, QrScanNewCode(req[r]), now))
    /\ UNCHANGED <<scan_events, now, normVars, clientVars>>

\* Lines 671-706: the insert into scan_events, its error branch, the response.
QrScanRecord(r) ==
    /\ At(r, "qr-scan", "record")
    /\ \/ /\ req' = [req EXCEPT ![r] =
                       Respond([Called(@, "event") EXCEPT !.fault = TRUE], 500,
                               "Database error while recording scan event")]
          /\ UNCHANGED scan_events
       \/ /\ ~ForeignKeyOk(codes, req[r].codeId)
          /\ req' = [req EXCEPT ![r] =
                       Respond(Called(@, "event"), 500, "Database error while recording scan event")]
          /\ UNCHANGED scan_events
       \/ /\ ForeignKeyOk(codes, req[r].codeId)
          /\ scan_events' = ScanEventsInsert(scan_events, gen_random_uuid(scan_events),
                               req[r].codeId, req[r].userId,
                               req[r].body.rawPayload, now)
          /\ req' = [req EXCEPT ![r] =
                       [Respond(Called(@, "event"), 200, "") EXCEPT
                          !.code = PublicCode(req[r].codeRecord),
                          !.scanEvent = [id |-> gen_random_uuid(scan_events),
                                         code_id |-> NoText,
                                         scanned_at |-> now]]]
    /\ UNCHANGED <<codes, now, normVars, clientVars>>

\* GET /api/scan-events, line 922: .limit(50)
LIST_LIMIT == 50

EventsOfAnyone(userId) == scan_events

\* .eq('scanned_by_user_id', userId)
EventsOf(userId) ==
    SelectSeq(scan_events, LAMBDA e : e.scanned_by_user_id = userId)

\* The orders of the rows S of events, newest first; rows with equal
\* scanned_at come in any order.
RECURSIVE OrdersOf(_, _)
OrdersOf(events, S) ==
    IF S = {} THEN { <<>> }
    ELSE UNION { { <<i>> \o rest : rest \in OrdersOf(events, S \ {i}) } :
                 i \in { i \in S : \A j \in S :
                           events[i].scanned_at >= events[j].scanned_at } }

\* .order('scanned_at', { ascending: false }): the orders the store may
\* return the rows in.
NewestFirst(events) == OrdersOf(events, 1..Len(events))

\* Lines 925-944: one element of the response, the event with its code joined.
ListedEvent(e) ==
    [id |-> e.id, code_id |-> e.code_id, scanned_at |-> e.scanned_at,
     raw_payload |-> e.raw_payload,
     code |-> IF ForeignKeyOk(codes, e.code_id)
              THEN PublicCode(CHOOSE c \in codes : c.id = e.code_id)
              ELSE NoRow]

\* The rows of the answer: the first LIST_LIMIT in the order f.
Listed(events, f) ==
    [i \in 1..(IF Len(events) < LIST_LIMIT THEN Len(events) ELSE LIST_LIMIT) |->
        ListedEvent(events[f[i]])]

\* Lines 892-963: the answer to the request q of a caller.
ScanEventsListed(r, q) ==
    IF q.userId = NoUser
    THEN req' = [req EXCEPT ![r] = Respond(q, 401, "Unauthorized")]
    ELSE \/ req' = [req EXCEPT ![r] =
                      Respond([Called(q, "list") EXCEPT !.fault = TRUE], 500,
                              "Database error while fetching scan events")]
         \/ \E f \in NewestFirst(EventsOf(q.userId)) :
                req' = [req EXCEPT ![r] =
                          [Respond(Called(q, "list"), 200, "") EXCEPT
                             !.list = Listed(EventsOf(q.userId), f)]]

\* GET /api/scan-events: a request arrives and is answered.
ScanEventsList(r) ==
    /\ Arrives(r)
    /\ \E u \in Users \cup {NoUser} :
         ScanEventsListed(r, [req[r] EXCEPT !.route = "list", !.userId = u])
    /\ UNCHANGED <<codes, scan_events, now, normVars, clientVars>>

\* GET /api/codes/:codeId, line 999: the columns the lookup selects.
SelectedColumns(row) == [row EXCEPT !.owner_user_id = ""]

\* The ids the public lookup is asked for: "a6f3hw7l" and "B7G4JX9M".
LookupIds == { LowerPattern, <<"B", "7", "G", "4", "J", "X", "9", "M">> }

\* Lines 997-1008: the lookup by id, no user filter; an error of the store
\* and a missing row are both answered 404.
CodeLookupAnswer(r, q, rows) ==
    \/ req' = [req EXCEPT ![r] =
                 Respond([Called(q, "lookup") EXCEPT !.fault = TRUE], 404,
                         "Code not found")]
    \/ req' = [req EXCEPT ![r] =
                 IF Cardinality(rows) = 1
                 THEN [Respond(Called(q, "lookup"), 200, "") EXCEPT
                         !.code = SelectedColumns(CHOOSE c \in rows : TRUE)]
                 ELSE Respond(Called(q, "lookup"), 404, "Code not found")]

\* GET /api/codes/:codeId, lines 977-1024: any caller, signed in or not.
CodeLookup(r) ==
    /\ Arrives(r)
    /\ \E u \in {NoUser, "u2"} : \E id \in LookupIds :
         CodeLookupAnswer(r, [req[r] EXCEPT !.route = "codes", !.userId = u,
                                            !.codeId = id],
                          SelectCode(toUpperCase(id), u))
    /\ UNCHANGED <<codes, scan_events, now, normVars, clientVars>>

Next ==
    \/ \E r \in ReqIds : ScanEventsLookup(r)
    \/ \E r \in ReqIds : ScanEventsInsertCode(r)
    \/ \E r \in ReqIds : ScanEventsRecord(r)
    \/ \E r \in ReqIds : QrScanLookup(r)
    \/ \E r \in ReqIds : QrScanInsertCode(r)
    \/ \E r \in ReqIds : QrScanRecord(r)
    \/ \E r \in ReqIds : ScanEventsList(r)
    \/ \E r \in ReqIds : CodeLookup(r)
    \/ \E r \in ReqIds : Close(r)
    \/ Tick

Spec == Init /\ [][Next]_vars

----------------------------------------------------------------------------
(* The scan-list endpoint over a store that many scans have filled.         *)

MaxEvents == 51   \* most scan events in the store

\* Who recorded the i-th event: every event the same user, or the two users
\* in turn.
RecordedBy(who, i) ==
    CASE who = "u1" -> "u1"
      [] who = "u2" -> "u2"
      [] who = "in-turn" -> IF i % 2 = 1 THEN "u1" ELSE "u2"

\* The time of the i-th of n events: a tick between any two scans, or two
\* scans within one tick at the old or at the new end.
RecordedAt(tie, i, n) ==
    CASE tie = "none" -> i
      [] tie = "oldest" -> IF i = 1 THEN 1 ELSE i - 1
      [] tie = "newest" -> IF i = n /\ n > 1 THEN n - 1 ELSE i

\* The table after n successful scans of "a6f3hw7l".
RecordedEvents(n, who, tie) ==
    [i \in 1..n |-> [id |-> i, code_id |-> UpperPattern,
                     scanned_by_user_id |-> RecordedBy(who, i),
                     scanned_at |-> RecordedAt(tie, i, n),
                     raw_payload |-> LowerPattern]]

InitList ==
    /\ codes = { [id |-> UpperPattern, system_acronym |-> "TMGS",
                  size |-> "unspecified", year |-> getFullYear(0),
                  owner_user_id |-> "u1", created_at |-> 0] }
    /\ scan_events \in { RecordedEvents(n, who, tie) :
                           n \in 0..MaxEvents, who \in {"u1", "u2", "in-turn"},
                           tie \in {"none", "oldest", "newest"} }
    /\ req = [r \in ReqIds |-> IdleRequest]
    /\ now = Len(scan_events)
    /\ normParts = NoParts
    /\ normIn = NoText
    /\ normPc = "off"
    /\ normLib = Reject("")
    /\ normRoute = Reject("")
    /\ normValid = FALSE
    /\ normAgain = Reject("")
    /\ normUrl = NoUrl("")
    /\ normBack = Reject("")
    /\ history = IdleHistory
    /\ page = IdlePage
    /\ hook = IdleHook

NextList ==
    \/ \E r \in ReqIds : ScanEventsList(r)
    \/ \E r \in ReqIds : Close(r)

SpecList == InitList /\ [][NextList]_vars

----------------------------------------------------------------------------
(* The normalizers alone: one payload, then both functions applied to it.   *)

pipelineVars == <<codes, scan_events, req, now>>

InitNorm ==
    /\ codes = {}
    /\ scan_events = <<>>
    /\ req = [r \in ReqIds |-> IdleRequest]
    /\ now = 0
    /\ normParts \in PlainParts \cup UrlParts
    /\ normIn = Build(normParts)
    /\ normPc = "input"
    /\ normLib = Reject("")
    /\ normRoute = Reject("")
    /\ normValid = FALSE
    /\ normAgain = Reject("")
    /\ normUrl = NoUrl("")
    /\ normBack = Reject("")
    /\ history = IdleHistory
    /\ page = IdlePage
    /\ hook = IdleHook

Normalize ==
    /\ normPc = "input"
    /\ normPc' = "done"
    /\ normLib' = extractCodeId(normIn)
    /\ normRoute' = routeExtractCodeId(normIn)
    /\ normValid' = isValidCodeId(normIn)
    /\ UNCHANGED <<normParts, normIn, normAgain, normUrl, normBack, pipelineVars,
                   clientVars>>

\* The id extractCodeId returned is given to extractCodeId.
Renormalize ==
    /\ normPc = "done"
    /\ normLib.ok
    /\ normPc' = "again"
    /\ normAgain' = extractCodeId(normLib.id)
    /\ UNCHANGED <<normParts, normIn, normLib, normRoute, normValid, normUrl, normBack,
                   pipelineVars, clientVars>>

\* The payload is given to generateQRUrl, and the URL it returned to
\* extractCodeId.
Generate ==
    /\ normPc = "done"
    /\ normPc' = "url"
    /\ normUrl' = generateQRUrl(normIn, DefaultBaseUrl)
    /\ normBack' = IF normUrl'.ok THEN extractCodeId(normUrl'.url) ELSE Reject("")
    /\ UNCHANGED <<normParts, normIn, normLib, normRoute, normValid, normAgain,
                   pipelineVars, clientVars>>

NextNorm == Normalize \/ Renormalize \/ Generate

SpecNorm == InitNorm /\ [][NextNorm]_vars

----------------------------------------------------------------------------
(* The scanner page: handleScan, its duplicate guard and its reset timer,   *)
(* in the session-only page (page.tsx) and the database-backed page         *)
(* (README.md).  Time is in milliseconds.                                   *)

\* setTimeout(..., 2000)
RESET_DELAY == 2000

\* The texts the reader decodes.
ScanTexts == {"A", "B"}

InitScanner ==
    /\ codes = {}
    /\ scan_events = <<>>
    /\ req = [r \in ReqIds |-> IdleRequest]
    /\ now = 0
    /\ normParts = NoParts
    /\ normIn = NoText
    /\ normPc = "off"
    /\ normLib = Reject("")
    /\ normRoute = Reject("")
    /\ normValid = FALSE
    /\ normAgain = Reject("")
    /\ normUrl = NoUrl("")
    /\ normBack = Reject("")
    /\ history = IdleHistory
    /\ page \in { [IdlePage EXCEPT !.variant = v] : v \in {"session", "database"} }
    /\ hook = IdleHook

serverVars == <<codes, scan_events, req, now, normVars>>

\* clearTimeout(scanTimeoutRef.current), then scanTimeoutRef.current =
\* setTimeout(() => { lastScanRef.current = null }, 2000)
ResetTimerClearOnly(p) ==
    [p EXCEPT !.timers = {tm \in @ : tm.id # p.scanTimeoutRef},
              !.scanTimeoutRef = NoTimer]
ResetTimer(p) ==
    [p EXCEPT !.timers = {tm \in @ : tm.id # p.scanTimeoutRef}
                         \cup {[id |-> p.timerCount + 1, due |-> p.clock + RESET_DELAY]},
              !.scanTimeoutRef = p.timerCount + 1,
              !.timerCount = @ + 1]

\* The call of addScan or recordScan the page makes for a scan it accepts.
Accepted(p, text) == [p EXCEPT !.calls = Append(@, [text |-> text, at |-> p.clock])]

\* page.tsx lines 56-93: a scan result with a text on the session-only page.
\* The guard, then lastScanRef, addScan and the reset timer.
HandleScanSession(text) ==
    /\ page.variant = "session"
    /\ Len(page.calls) < MaxScans
    /\ page' = IF page.lastScanRef = text THEN page
               ELSE ResetTimer(Accepted([page EXCEPT !.lastScanRef = text], text))
    /\ UNCHANGED <<serverVars, hook, history>>

\* README.md lines 177-213: a scan result with a text on the database-backed
\* page, up to the call of recordScan.  The guard reads the isRecording of
\* the render that made this handleScan.
HandleScanDatabase(text) ==
    /\ page.variant = "database"
    /\ Len(page.calls) < MaxScans
    /\ page' = IF page.lastScanRef = text \/ page.rendered THEN page
               ELSE Accepted([page EXCEPT !.lastScanRef = text,
                                          !.isRecording = TRUE,
                                          !.pending = @ + 1], text)
    /\ UNCHANGED <<serverVars, hook, history>>

\* README.md lines 213-238: recordScan has resolved or rejected; finally,
\* then the reset timer.
RecordScanSettles ==
    /\ page.variant = "database"
    /\ page.pending > 0
    /\ page' = ResetTimer([page EXCEPT !.isRecording = FALSE, !.pending = @ - 1])
    /\ UNCHANGED <<serverVars, hook, history>>

\* README.md lines 165 and 306: the page renders again after setIsRecording
\* and hands the reader a handleScan that sees the new isRecording.
Render ==
    /\ page.variant = "database"
    /\ page.rendered # page.isRecording
    /\ page' = [page EXCEPT !.rendered = page.isRecording]
    /\ UNCHANGED <<serverVars, hook, history>>

\* The callback of a timer that is due: lastScanRef.current = null.
TimerFires ==
    /\ \E tm \in page.timers :
         /\ tm.due <= page.clock
         /\ page' = [page EXCEPT !.timers = @ \ {tm}, !.lastScanRef = ""]
    /\ UNCHANGED <<serverVars, hook, history>>

\* Time passes: for MaxClock milliseconds, and as long as a timer waits.
ClockAdvances ==
    /\ \/ page.clock < MaxClock
       \/ \E tm \in page.timers : tm.due > page.clock
    /\ page' = [page EXCEPT !.clock = @ + ClockStep]
    /\ UNCHANGED <<serverVars, hook, history>>

NextScanner ==
    \/ \E text \in ScanTexts : HandleScanSession(text)
    \/ \E text \in ScanTexts : HandleScanDatabase(text)
    \/ RecordScanSettles
    \/ Render
    \/ TimerFires
    \/ ClockAdvances

SpecScanner == InitScanner /\ [][NextScanner]_vars

\* Requests settle, the page renders, due timers fire and time goes on.
SpecScannerLive ==
    /\ SpecScanner
    /\ WF_vars(RecordScanSettles)
    /\ WF_vars(Render)
    /\ WF_vars(TimerFires)
    /\ WF_vars(ClockAdvances)

----------------------------------------------------------------------------
(* The reconciler: useScanEvents over the scan-events endpoints.  A call of *)
(* recordScan or refreshScans is a task; between its requests and their     *)
(* responses the other tasks and the server take their steps.               *)

\* The payloads the page hands to recordScan: " a6f3hw7l" and "ab-12".
HookPayloads == { BodyPlain.rawPayload, DashPattern }

\* The caller the server sees: the signed-in user, or nobody once the
\* session has ended.
HookCallers == {"u1", NoUser}

\* Statuses of a request that failed: 0 is a fetch that rejected.
NetworkFailure == 0

InitHook ==
    /\ codes = {}
    /\ scan_events = <<>>
    /\ req = [r \in ReqIds |-> IdleRequest]
    /\ now = 0
    /\ normParts = NoParts
    /\ normIn = NoText
    /\ normPc = "off"
    /\ normLib = Reject("")
    /\ normRoute = Reject("")
    /\ normValid = FALSE
    /\ normAgain = Reject("")
    /\ normUrl = NoUrl("")
    /\ normBack = Reject("")
    /\ history = IdleHistory
    /\ page = IdlePage
    /\ hook = IdleHook

\* The calls in progress.
InFlight == {t \in TaskIds : hook.task[t].pc \in {"posted", "get", "got"}}

\* Tasks are numbered in the order they are called.
Callable(t) ==
    /\ hook.task[t].pc = "idle"
    /\ \A j \in 1..(t - 1) : hook.task[j].pc # "idle"
    /\ Cardinality(InFlight) < MaxInFlight

\* Lines 39-44: refreshScans sets isLoading, clears error and sends the GET.
RefreshScansIssued(h, t) ==
    [h EXCEPT !.isLoading = TRUE, !.error = "", !.task[t].pc = "get"]

\* Lines 119-121 and the page's refresh: refreshScans() is called.
RefreshScansCalled(t) ==
    /\ Callable(t)
    /\ hook' = RefreshScansIssued([hook EXCEPT !.task[t].kind = "refresh"], t)
    /\ UNCHANGED <<serverVars, page, history>>

\* The response the task has received for its POST.
Posted(t, rawPayload, status, code, scanEvent) ==
    hook' = [hook EXCEPT !.task[t] = [@ EXCEPT !.pc = "posted", !.kind = "record",
                                                !.rawPayload = rawPayload,
                                                !.status = status,
                                                !.code = code, !.scanEvent = scanEvent]]

\* POST /api/scan-events answers the task with the code it found or created
\* and the event it recorded.
ServerRecorded(t, userId, rawPayload, codeId, res) ==
    /\ codes' = res.table
    /\ scan_events' = ScanEventsInsert(scan_events, gen_random_uuid(scan_events),
                                       codeId, userId, rawPayload, now)
    /\ Posted(t, rawPayload, 200, PublicCode(CHOOSE c \in res.table : c.id = codeId),
              [id |-> gen_random_uuid(scan_events), code_id |-> codeId,
               scanned_at |-> now])

\* use-scan-events.ts lines 66-75 and POST /api/scan-events as the client
\* sees it: recordScan(rawPayload) sends the POST; no answer, 401, 400, 500,
\* or the scan recorded.
RecordScanCalled(t, userId, rawPayload, ex) ==
    /\ Callable(t)
    /\ \/ /\ \E status \in {NetworkFailure, 500} :
               Posted(t, rawPayload, status, NoRow, NoEvent)
          /\ UNCHANGED <<codes, scan_events>>
       \/ /\ userId = NoUser
          /\ Posted(t, rawPayload, 401, NoRow, NoEvent)
          /\ UNCHANGED <<codes, scan_events>>
       \/ /\ userId # NoUser
          /\ ~ex.ok
          /\ Posted(t, rawPayload, 400, NoRow, NoEvent)
          /\ UNCHANGED <<codes, scan_events>>
       \/ /\ userId # NoUser
          /\ ex.ok
          /\ ServerRecorded(t, userId, rawPayload, ex.id,
                LET res == CodesInsert(codes,
                              ScanEventsNewCode([codeId |-> ex.id, userId |-> userId,
                                                 year |-> getFullYear(now)]), now)
                IN  IF res.ok THEN res ELSE [res EXCEPT !.table = codes])
    /\ UNCHANGED <<req, now, normVars, page, history>>

\* Lines 85-99: the entry recordScan builds from the response.
NewScan(task) ==
    [id |-> task.scanEvent.id, code_id |-> task.scanEvent.code_id,
     scanned_at |-> task.scanEvent.scanned_at, raw_payload |-> task.rawPayload,
     code |-> [task.code EXCEPT !.created_at = task.scanEvent.scanned_at]]

\* setScans((prev) => [newScan, ...prev]): state updates take effect in the
\* order they are made.
Prepended(h, newScan) == [h EXCEPT !.scans = <<newScan>> \o @]

\* Lines 109-113: setError, then the promise rejects.
RecordScanRejected(h, t) ==
    [h EXCEPT !.error = "Failed to record scan",
              !.task[t] = [IdleTask EXCEPT !.pc = "rejected", !.kind = "record"]]

RecordScanSettledNoPrepend(t) ==
    /\ hook.task[t].pc = "posted"
    /\ hook' = IF hook.task[t].status = 200
               THEN RefreshScansIssued(hook, t)
               ELSE RecordScanRejected(hook, t)
    /\ UNCHANGED <<serverVars, page, history>>

RecordScanSettledOptimistic(t) ==
    /\ hook.task[t].pc = "posted"
    /\ hook' = IF hook.task[t].status = 200
               THEN RefreshScansIssued(Prepended(hook, NewScan(hook.task[t])), t)
               ELSE RecordScanRejected(Prepended(hook, NewScan(hook.task[t])), t)
    /\ UNCHANGED <<serverVars, page, history>>

\* Lines 77-113: the response of the POST has come.  Not OK: the catch
\* branch.  OK: the entry is prepended, then refreshScans() is called.
RecordScanSettled(t) ==
    /\ hook.task[t].pc = "posted"
    /\ hook' = IF hook.task[t].status = 200
               THEN RefreshScansIssued(Prepended(hook, NewScan(hook.task[t])), t)
               ELSE RecordScanRejected(hook, t)
    /\ UNCHANGED <<serverVars, page, history>>

\* The response the task has received for its GET.
Got(t, status, data) ==
    hook' = [hook EXCEPT !.task[t] = [@ EXCEPT !.pc = "got", !.listStatus = status,
                                                !.data = data]]

\* GET /api/scan-events as the client sees it: no answer, 401, 500, or the
\* caller's newest events.
ServerLists(t, userId) ==
    /\ hook.task[t].pc = "get"
    /\ \/ \E status \in {NetworkFailure, 500} : Got(t, status, <<>>)
       \/ /\ userId = NoUser
          /\ Got(t, 401, <<>>)
       \/ /\ userId # NoUser
          /\ \E f \in NewestFirst(EventsOf(userId)) :
               Got(t, 200, Listed(EventsOf(userId), f))
    /\ UNCHANGED <<serverVars, page, history>>

\* The entries of data the list does not hold yet, then the list.
Merged(scans, data) ==
    SelectSeq(data, LAMBDA e : \A i \in 1..Len(scans) : scans[i].id # e.id) \o scans

\* The task after refreshScans has returned: recordScan returns newScan.
TaskResolved(task) == [IdleTask EXCEPT !.pc = "resolved", !.kind = task.kind]

RefreshScansSettledMerge(t) ==
    /\ hook.task[t].pc = "got"
    /\ hook' = IF hook.task[t].listStatus = 200
               THEN [hook EXCEPT !.scans = Merged(hook.scans, hook.task[t].data),
                                 !.isLoading = FALSE,
                                 !.task[t] = TaskResolved(@)]
               ELSE [hook EXCEPT !.error = "Failed to fetch scan events",
                                 !.isLoading = FALSE,
                                 !.task[t] = TaskResolved(@)]
    /\ UNCHANGED <<serverVars, page, history>>

RefreshScansSettledThrows(t) ==
    /\ hook.task[t].pc = "got"
    /\ hook' = IF hook.task[t].listStatus = 200
               THEN [hook EXCEPT !.scans = hook.task[t].data,
                                 !.isLoading = FALSE,
                                 !.task[t] = TaskResolved(@)]
               ELSE [RecordScanRejected(hook, t) EXCEPT
                                 !.isLoading = FALSE,
                                 !.task[t].kind = hook.task[t].kind]
    /\ UNCHANGED <<serverVars, page, history>>

\* Lines 46-60: the response of the GET has come.  OK: setScans(data).  Not
\* OK: setError, nothing thrown.  Then isLoading is cleared.
RefreshScansSettled(t) ==
    /\ hook.task[t].pc = "got"
    /\ hook' = IF hook.task[t].listStatus = 200
               THEN [hook EXCEPT !.scans = hook.task[t].data,
                                 !.isLoading = FALSE,
                                 !.task[t] = TaskResolved(@)]
               ELSE [hook EXCEPT !.error = "Failed to fetch scan events",
                                 !.isLoading = FALSE,
                                 !.task[t] = TaskResolved(@)]
    /\ UNCHANGED <<serverVars, page, history>>

NextHook ==
    \/ \E t \in TaskIds : \E userId \in HookCallers : \E rawPayload \in HookPayloads :
         RecordScanCalled(t, userId, rawPayload, extractCodeId(rawPayload))
    \/ \E t \in TaskIds : RefreshScansCalled(t)
    \/ \E t \in TaskIds : RecordScanSettled(t)
    \/ \E t \in TaskIds : \E userId \in HookCallers : ServerLists(t, userId)
    \/ \E t \in TaskIds : RefreshScansSettled(t)
    \/ Tick

SpecHook == InitHook /\ [][NextHook]_vars

----------------------------------------------------------------------------
(* useScanHistory: the session-only list, addScan and clearHistory. A call  *)
(* queues a state update; React applies the queue, in order, when it        *)
(* renders.                                                                 *)

MaxHistoryCalls == 4   \* calls of addScan and clearHistory in one session

JsonRaw == "{\"a\":1}"

\* Values read from QR codes: JSON, a padded lower-case id, text that is no id.
HistoryRaws == {JsonRaw, " a6f3hw7l", "not a valid code!!"}

Undefined == [defined |-> FALSE, value |-> {}]

\* Lines 23-29: JSON.parse(rawValue) of the values above, undefined when it
\* throws.
JSONParse(rawValue) ==
    IF rawValue = JsonRaw THEN [defined |-> TRUE, value |-> {<<"a", 1>>}]
    ELSE Undefined

NoScan == [id |-> 0, rawValue |-> "", scannedAt |-> 0, parsedJson |-> Undefined]

\* Lines 31-36: the ScanEvent of a call; uuidv4() is the next unused number.
NewHistoryScan(h, rawValue, at) ==
    [id |-> h.uuids + 1, rawValue |-> rawValue, scannedAt |-> at,
     parsedJson |-> JSONParse(rawValue)]

\* setScans((prev) => ...) and setScans(value), as entries of the queue.
Updater(scan) == [op |-> "prepend", scan |-> scan,   value |-> <<>>]
Value(scans)  == [op |-> "set",     scan |-> NoScan, value |-> scans]

addScanFromRendered(h, rawValue, at) ==
    [h EXCEPT !.queue = Append(@, Value(<<NewHistoryScan(h, rawValue, at)>> \o h.scans)),
              !.uuids = @ + 1,
              !.calls = Append(@, [op |-> "addScan", rawValue |-> rawValue])]

\* Lines 21-38: addScan(rawValue).
addScan(h, rawValue, at) ==
    [h EXCEPT !.queue = Append(@, Updater(NewHistoryScan(h, rawValue, at))),
              !.uuids = @ + 1,
              !.calls = Append(@, [op |-> "addScan", rawValue |-> rawValue])]

\* Lines 53-54: clearHistory().
clearHistory(h) ==
    [h EXCEPT !.queue = Append(@, Value(<<>>)),
              !.calls = Append(@, [op |-> "clearHistory", rawValue |-> ""])]

\* One queued update applied to the state before it.
ApplyUpdate(prev, u) == IF u.op = "prepend" THEN <<u.scan>> \o prev ELSE u.value

RECURSIVE ApplyQueue(_, _)
ApplyQueue(prev, queue) ==
    IF queue = <<>> THEN prev
    ELSE ApplyQueue(ApplyUpdate(prev, Head(queue)), Tail(queue))

InitHistory ==
    /\ codes = {}
    /\ scan_events = <<>>
    /\ req = [r \in ReqIds |-> IdleRequest]
    /\ now = 0
    /\ normParts = NoParts
    /\ normIn = NoText
    /\ normPc = "off"
    /\ normLib = Reject("")
    /\ normRoute = Reject("")
    /\ normValid = FALSE
    /\ normAgain = Reject("")
    /\ normUrl = NoUrl("")
    /\ normBack = Reject("")
    /\ page = IdlePage
    /\ hook = IdleHook
    /\ history = IdleHistory

AddScan(rawValue) ==
    /\ Len(history.calls) < MaxHistoryCalls
    /\ history' = addScan(history, rawValue, now)
    /\ UNCHANGED <<serverVars, page, hook>>

ClearHistory ==
    /\ Len(history.calls) < MaxHistoryCalls
    /\ history' = clearHistory(history)
    /\ UNCHANGED <<serverVars, page, hook>>

\* The component renders: useState returns the queue applied to the state.
HistoryRender ==
    /\ history.queue # <<>>
    /\ history' = [history EXCEPT !.scans = ApplyQueue(@, history.queue),
                                  !.queue = <<>>]
    /\ UNCHANGED <<serverVars, page, hook>>

NextHistory ==
    \/ \E rawValue \in HistoryRaws : AddScan(rawValue)
    \/ ClearHistory
    \/ HistoryRender
    \/ Tick

SpecHistory == InitHistory /\ [][NextHistory]_vars

----------------------------------------------------------------------------
(* The resolver and the recorder (spec.md 4.2, 4.3, 6).                     *)

RowsOf(id) == {c \in codes : c.id = id}

RecordRoutes == {"scan-events", "qr-scan"}

\* A scan-record request that has its response and got past normalization
\* without a store failure other than a rejected insert.
Resolved(q) ==
    q.pc = "done" /\ q.route \in RecordRoutes /\ q.codeId # NoText /\ ~q.fault

\* C1: in every state no two rows of codes have the same id, and when a
\* request that resolved an id has finished, whatever the interleaving with
\* the other requests, exactly one row with that id exists.
C1_OneRowPerId ==
    /\ \A c1 \in codes : \A c2 \in codes : c1.id = c2.id => c1 = c2
    /\ \A r \in ReqIds : Resolved(req[r]) => Cardinality(RowsOf(req[r].codeId)) = 1

\* Two requests raced on an id no row had: the later insert was rejected and
\* one row is there.
C1_Witness ==
    \E r \in ReqIds :
        /\ Resolved(req[r]) /\ req[r].conflict /\ ~req[r].existed
        /\ Cardinality(RowsOf(req[r].codeId)) = 1

\* C2: a request whose insert into codes is rejected because a concurrent
\* request created the row between its lookup and its insert is answered as
\* a success by reuse: status 200 with that row and a recorded scan event.
C2_ConflictIsReuse ==
    \A r \in ReqIds :
        (req[r].pc = "done" /\ req[r].conflict /\ ~req[r].existed) =>
            /\ req[r].status = 200
            /\ req[r].code.id = req[r].codeId
            /\ req[r].scanEvent # NoEvent

\* C3: a request for an id whose row existed when the request arrived, by
\* any caller, is answered 200 with that row's fields, and creates no row.
C3_ReuseByAnyCaller ==
    \A r \in ReqIds :
        (Resolved(req[r]) /\ req[r].existed) =>
            /\ req[r].status = 200
            /\ ~req[r].created
            /\ \E c \in RowsOf(req[r].codeId) : PublicCode(c) = req[r].code

\* C4: no step changes or removes a row of codes: every row of one state is,
\* with all its fields, a row of the next.
C4_CodesImmutable == [][\A c \in codes : c \in codes']_vars

\* A caller other than the owner re-scanned an existing id and was answered
\* with the row as its owner created it.
C4_Witness ==
    \E r \in ReqIds : \E c \in codes :
        /\ req[r].pc = "done" /\ req[r].status = 200 /\ req[r].existed
        /\ c.id = req[r].codeId /\ c.owner_user_id # req[r].userId
        /\ PublicCode(c) = req[r].code

RefIntegrity ==
    \A i \in 1..Len(scan_events) : RowsOf(scan_events[i].code_id) # {}

RecordAfterResolve ==
    \A r \in ReqIds :
        req[r].pc = "record" =>
            /\ req[r].codeRecord.id = req[r].codeId
            /\ req[r].codeRecord \in codes

\* C5: every scan event refers to an existing row of codes; a request reaches
\* the insert of its scan event only with the row of its id in hand; and the
\* step that writes a scan event writes nothing to codes.
C5_CodeBeforeEvent ==
    /\ [](RefIntegrity /\ RecordAfterResolve)
    /\ [][scan_events' # scan_events => codes' = codes]_vars

\* A scan event is stored while another request holds its row and is about to
\* record.
C5_Witness ==
    /\ Len(scan_events) >= 1
    /\ \E r \in ReqIds : req[r].pc = "record" /\ req[r].created

\* C6: scan_events only grows at its end: each step leaves the events already
\* there, and their order, as they were.
C6_AppendOnly ==
    [][/\ Len(scan_events') >= Len(scan_events)
       /\ SubSeq(scan_events', 1, Len(scan_events)) = scan_events]_vars

\* The same user scanned the same id twice and both events are stored.
C6_Witness ==
    /\ Len(scan_events) >= 2
    /\ scan_events[1].code_id = scan_events[2].code_id
    /\ scan_events[1].scanned_by_user_id = scan_events[2].scanned_by_user_id

C7Outcome(q, n) ==
    IF n.ok
    THEN q.status = 200 /\ q.code.id = n.id /\ q.scanEvent # NoEvent
    ELSE q.status = 400 /\ q.error # ""

\* C7: an authenticated request with a non-empty string rawPayload and no
\* store failure is answered 200 with the code of the normalized id and the
\* new scan event when normalize accepts the payload, and 400 with a reason
\* when it rejects it.
C7_EndToEnd ==
    \A r \in ReqIds :
        (/\ req[r].pc = "done" /\ ~req[r].fault
         /\ req[r].userId # NoUser
         /\ req[r].body.kind = "json" /\ req[r].body.payloadType = "string"
         /\ req[r].body.rawPayload # NoText) =>
            C7Outcome(req[r], extractCodeId(req[r].body.rawPayload))

C8Event(q, e, n) ==
    /\ e.scanned_by_user_id = q.userId
    /\ e.raw_payload = q.body.rawPayload
    /\ n.ok /\ e.code_id = n.id

\* C8: the scan event a request wrote carries the caller's user id, the
\* rawPayload exactly as received, and normalize(rawPayload) as its code id.
C8_EventFields ==
    \A r \in ReqIds :
        (req[r].pc = "done" /\ req[r].status = 200 /\ req[r].scanEvent # NoEvent) =>
            C8Event(req[r], scan_events[req[r].scanEvent.id],
                    extractCodeId(req[r].body.rawPayload))

----------------------------------------------------------------------------
(* The normalizer (spec.md 4.1).                                            *)

AlnumCores ==
    { Cycle(pat, n) : pat \in {LowerPattern, UpperPattern},
                      n \in CODE_ID_MIN_LENGTH..CODE_ID_MAX_LENGTH }

\* C9: a plain payload of 6 to 32 letters and digits, with or without
\* whitespace around it, is returned trimmed and upper-cased.
C9_PlainNormalized ==
    (normPc = "done" /\ normParts.kind = "plain" /\ normParts.core \in AlnumCores) =>
        normLib = Accept(Cycle(UpperPattern, Len(normParts.core)))

\* " a6f3hw7l...\t" of 32 lower-case characters came back upper-cased.
C9_Witness ==
    /\ normPc = "done" /\ normParts.kind = "plain"
    /\ normParts.padL = 1 /\ normParts.padR = 1
    /\ normParts.core = Cycle(LowerPattern, CODE_ID_MAX_LENGTH)
    /\ normLib.ok

CodeParamForms == {"code", "other-and-code", "code-and-fragment"}

C10Outcome(url, expected) ==
    url.ok => (normLib = expected /\ normRoute.ok = expected.ok
               /\ normRoute.id = expected.id)

\* C10: for an http or https URL with a non-empty code parameter, both
\* normalizers decide on that parameter alone: they return it upper-cased when
\* it is a valid id and reject the payload when it is not, whatever the path.
C10_CodeParamWins ==
    (/\ normPc = "done" /\ normParts.kind = "url"
     /\ normParts.scheme \in {HttpPrefix, HttpsPrefix}
     /\ normParts.qform \in CodeParamForms
     /\ normParts.qvalue # <<>>) =>
        C10Outcome(ParseURL(normIn),
                   ValidateCodeId(toUpperCase(trim(normParts.qvalue))))

GoodHost == <<"h", "o", "s", "t">>

\* The code parameter is absent, or present and empty.
NoCodeParam(parts) ==
    \/ parts.qform = "none"
    \/ parts.qform \in CodeParamForms /\ parts.qvalue = <<>>

\* What validation makes of the path ids of the payloads.
PathIdOutcome(id) ==
    CASE id = <<"B", "7", "G", "4", "J", "X", "9", "M">> -> Accept(id)
      [] id = <<"b", "7", "g", "4", "j", "x", "9", "m">> ->
             Accept(<<"B", "7", "G", "4", "J", "X", "9", "M">>)
      [] id = Cycle(UpperPattern, 13) -> Accept(id)
      [] id = <<"a", "b", "c">> -> Reject(ErrTooShort)

\* C11: for an http or https URL without a code parameter, or with an empty
\* one, the candidate is the last non-empty path segment, trailing slashes and
\* empty segments skipped; a URL without a path segment is rejected.
C11_LastPathSegment ==
    (/\ normPc = "done" /\ normParts.kind = "url"
     /\ normParts.scheme \in {HttpPrefix, HttpsPrefix}
     /\ normParts.host = GoodHost
     /\ NoCodeParam(normParts)) =>
        /\ \A id \in PathIds :
             normParts.path \in { <<"/", "s", "/">> \o id,
                                  <<"/", "s", "/">> \o id \o <<"/">>,
                                  <<"/", "/">> \o id \o <<"/", "/">> }
                => normLib = PathIdOutcome(id)
        /\ normParts.path \in { <<>>, <<"/">> } => normLib = Reject(ErrNoSegment)

\* "https://host//b7g4jx9m//?code=" gave B7G4JX9M.
C11_Witness ==
    /\ normPc = "done" /\ normParts.kind = "url"
    /\ normParts.scheme = HttpsPrefix /\ normParts.host = GoodHost
    /\ normParts.path = <<"/", "/", "b", "7", "g", "4", "j", "x", "9", "m", "/", "/">>
    /\ normParts.qform = "code" /\ normParts.qvalue = <<>>
    /\ normLib = Accept(<<"B", "7", "G", "4", "J", "X", "9", "M">>)

\* C12: the empty string and every string of whitespace only is rejected with
\* an empty-payload reason, and no id is returned.
C12_EmptyRejected ==
    (normPc = "done" /\ normParts.kind = "plain" /\ normParts.core = <<>>) =>
        /\ ~normLib.ok
        /\ normLib.id = <<>>
        /\ normLib.reason = (IF normIn = <<>> THEN ErrEmpty ELSE ErrEmptyTrim)

\* " \t" was rejected as empty after trimming.
C12_Witness ==
    /\ normPc = "done" /\ normParts.kind = "plain" /\ normParts.core = <<>>
    /\ normParts.padL = 1 /\ normParts.padR = 1
    /\ normLib = Reject(ErrEmptyTrim)

\* C13: a candidate of letters and digits is rejected as too short when it
\* has 1 to 5 characters, accepted when it has 6 to 32, and rejected as too
\* long when it has more than 32.
C13_LengthBounds ==
    (/\ normPc = "done" /\ normParts.kind = "plain"
     /\ normParts.core \in { Cycle(pat, n) : pat \in {LowerPattern, UpperPattern},
                                             n \in 1..MaxLen }) =>
        normLib = (IF Len(normParts.core) < 6 THEN Reject(ErrTooShort)
                   ELSE IF Len(normParts.core) > 32 THEN Reject(ErrTooLong)
                   ELSE Accept(Cycle(UpperPattern, Len(normParts.core))))

\* 40 letters and digits were rejected as too long.
C13_Witness ==
    /\ normPc = "done" /\ normParts.kind = "plain"
    /\ normParts.core = Cycle(UpperPattern, 40)
    /\ normLib = Reject(ErrTooLong)

\* Candidates with a character that is neither a letter nor a digit: "ab-",
\* "ab-1", "ab-12", "ab-12a", ...
DashCores == { Cycle(DashPattern, n) : n \in 3..MaxLen }

\* C14 as stated: every payload whose candidate has a character outside A-Z
\* and 0-9 is rejected with the invalid-characters reason.
C14_BadCharsReason ==
    (normPc = "done" /\ normParts.kind = "plain" /\ normParts.core \in DashCores) =>
        normLib = Reject(ErrBadChars)

\* C14 as amended: such a payload is always rejected; the reason is the
\* invalid-characters one when the candidate has 6 to 32 characters, and the
\* too-short or too-long one otherwise, the length being checked first.
C14_BadCharsWithinBounds ==
    (normPc = "done" /\ normParts.kind = "plain" /\ normParts.core \in DashCores) =>
        normLib = Reject(IF Len(normParts.core) < 6 THEN ErrTooShort
                         ELSE IF Len(normParts.core) > 32 THEN ErrTooLong
                         ELSE ErrBadChars)

\* "ab-12ab-" was rejected for its characters.
C14_Witness ==
    /\ normPc = "done" /\ normParts.kind = "plain"
    /\ normParts.core = Cycle(DashPattern, 8)
    /\ normLib = Reject(ErrBadChars)

\* C15: every id extractCodeId returns is returned unchanged when it is given
\* to extractCodeId again.
C15_Idempotent ==
    normPc = "again" => (normAgain.ok /\ normAgain = normLib)

\* " a6f3hw7l\t" gave A6F3HW7L, and A6F3HW7L gave A6F3HW7L.
C15_Witness ==
    /\ normPc = "again" /\ normParts.kind = "plain"
    /\ normParts.padL = 1 /\ normParts.core = LowerPattern
    /\ normAgain = Accept(UpperPattern)

\* C16: isValidCodeId returns a boolean for every input: TRUE exactly when
\* extractCodeId returns an id, FALSE exactly when it throws.
C16_ValidAgrees ==
    normPc \in {"done", "again"} => (normValid \in BOOLEAN /\ normValid = normLib.ok)

\* A URL that does not parse: extractCodeId threw, isValidCodeId returned FALSE.
C16_Witness ==
    /\ normPc = "done" /\ normParts.kind = "url"
    /\ normLib = Reject(ErrUrlParse)
    /\ normValid = FALSE

----------------------------------------------------------------------------
(* The endpoints (spec.md 6, 7).                                            *)

\* C17: the row a scan-record request creates has the normalized id, the
\* caller as owner, the year the handler read, and the systemAcronym and size
\* of the request body when supplied, "TMGS" and "unspecified" otherwise.
C17_CreatedRowFields ==
    \A r \in ReqIds :
        (req[r].pc = "record" /\ req[r].created) =>
            /\ req[r].codeRecord \in codes
            /\ req[r].codeRecord.id = req[r].codeId
            /\ req[r].codeRecord.owner_user_id = req[r].userId
            /\ req[r].codeRecord.year = req[r].year
            /\ req[r].codeRecord.system_acronym =
                 (IF req[r].body.systemAcronym # "" THEN req[r].body.systemAcronym
                  ELSE "TMGS")
            /\ req[r].codeRecord.size =
                 (IF req[r].body.size # "" THEN req[r].body.size ELSE "unspecified")

\* A request without a caller identity is answered at once, 401, without a
\* call to the store.
Unauthorized(q) == q.status = 401 /\ q.calls = <<>>

\* C18: a scan-record or scan-list request without a caller identity is
\* answered 401 before any call to the store: it issues no call, and the step
\* that answers it leaves codes and scan_events as they were.
C18_AuthFirst ==
    /\ [](\A r \in ReqIds :
            (/\ req[r].route \in RecordRoutes \cup {"list"}
             /\ req[r].pc \notin {"idle", "closed"} /\ req[r].userId = NoUser) =>
                (req[r].pc = "done" /\ Unauthorized(req[r])))
    /\ [][\A r \in ReqIds :
            (/\ req[r].pc = "idle" /\ req'[r].pc = "done" /\ req'[r].userId = NoUser
             /\ req'[r].route \in RecordRoutes \cup {"list"}) =>
                (codes' = codes /\ scan_events' = scan_events)]_vars

\* A scan-list request without identity was answered 401 while the caller's
\* events are in the store.
C18_Witness ==
    /\ Len(scan_events) >= 1
    /\ \E r \in ReqIds :
         /\ req[r].pc = "done" /\ req[r].route = "list" /\ req[r].userId = NoUser
         /\ Unauthorized(req[r])

\* C19: an authenticated scan-record request that does not get to a valid
\* code id (body not parseable, rawPayload missing, empty or not a string,
\* payload without a valid id) is answered 400 and issues no call to the store.
C19_ValidationIs400 ==
    \A r \in ReqIds :
        (/\ req[r].pc = "done" /\ req[r].route \in RecordRoutes
         /\ req[r].userId # NoUser /\ req[r].codeId = NoText) =>
            (req[r].status = 400 /\ req[r].calls = <<>>)

\* The calls a scan-record request may have issued, in order.
CallOrders ==
    { <<>>, <<"lookup">>, <<"lookup", "insert">>, <<"lookup", "event">>,
      <<"lookup", "insert", "event">> }

\* C20: a scan-record request issues at most one codes lookup, one codes
\* insert and one scan_events insert, in that order; when one of them fails
\* the request is answered 500 in the same step and nothing more happens in
\* it: no retry and no later call.
C20_NoRetry ==
    /\ [](\A r \in ReqIds :
            req[r].route \in RecordRoutes =>
                /\ req[r].calls \in CallOrders
                /\ req[r].fault => (req[r].pc = "done" /\ req[r].status = 500))
    /\ [][\A r \in ReqIds :
            req[r].fault => req'[r] \in {req[r], ClosedRequest}]_vars

\* The scan_events insert failed after the lookup and the codes insert.
C20_Witness ==
    \E r \in ReqIds :
        /\ req[r].pc = "done" /\ req[r].fault /\ req[r].status = 500
        /\ req[r].calls = <<"lookup", "insert", "event">>

ListedIds(q) == { q.list[i].id : i \in 1..Len(q.list) }

C21Listing(q, mine) ==
    /\ Len(q.list) = (IF Len(mine) < 50 THEN Len(mine) ELSE 50)
    /\ \A i \in 1..Len(q.list) :
         /\ q.list[i].id \in 1..Len(scan_events)
         /\ scan_events[q.list[i].id].scanned_by_user_id = q.userId
         /\ scan_events[q.list[i].id].scanned_at = q.list[i].scanned_at
    /\ \A i \in 1..Len(q.list) : \A j \in 1..Len(q.list) :
         i < j => /\ q.list[i].id # q.list[j].id
                  /\ q.list[i].scanned_at >= q.list[j].scanned_at
    /\ \A k \in 1..Len(mine) :
         mine[k].id \notin ListedIds(q) =>
             \A i \in 1..Len(q.list) : mine[k].scanned_at <= q.list[i].scanned_at

\* C21: the scan-list answer holds only events the caller recorded, each once,
\* newest first, at most 50 of them: all of the caller's events when there are
\* at most 50, the 50 newest otherwise.
C21_ListOwnNewest50 ==
    \A r \in ReqIds :
        (req[r].pc = "done" /\ req[r].route = "list" /\ req[r].status = 200) =>
            C21Listing(req[r], SelectSeq(scan_events,
                LAMBDA e : e.scanned_by_user_id = req[r].userId))

\* The caller has 51 events and was answered with 50.
C21_Witness ==
    \E r \in ReqIds :
        /\ req[r].pc = "done" /\ req[r].route = "list" /\ req[r].status = 200
        /\ Len(req[r].list) = 50
        /\ Cardinality({i \in 1..Len(scan_events) :
               scan_events[i].scanned_by_user_id = req[r].userId}) = 51

\* The events of a caller, in the order they were recorded.
RecordedFor(u) == SelectSeq(scan_events, LAMBDA e : e.scanned_by_user_id = u)

NonDecreasing(events) ==
    \A i \in 1..Len(events) : \A j \in 1..Len(events) :
        i < j => events[i].scanned_at <= events[j].scanned_at

\* C22: the events of each caller, in the order they were recorded, are
\* non-decreasing in scanned_at, and a scan-list answer that is not empty
\* starts with an event of the caller's latest scanned_at.
C22_ScannedAtMonotonic ==
    /\ \A u \in Users : NonDecreasing(RecordedFor(u))
    /\ \A r \in ReqIds :
         (/\ req[r].pc = "done" /\ req[r].route = "list" /\ req[r].status = 200
          /\ req[r].list # <<>>) =>
             req[r].list[1].scanned_at =
                 RecordedFor(req[r].userId)[Len(RecordedFor(req[r].userId))].scanned_at

\* A caller recorded a scan, the clock advanced, the caller recorded another.
C22_Witness ==
    /\ Len(scan_events) >= 2
    /\ scan_events[1].scanned_by_user_id = scan_events[2].scanned_by_user_id
    /\ scan_events[1].scanned_at < scan_events[2].scanned_at

\* The row the public lookup is about, whatever the case of the id asked for.
AskedRows(q) ==
    RowsOf(IF q.codeId = LowerPattern THEN UpperPattern ELSE q.codeId)

\* C23: the public lookup answers every caller, signed in or not, from the
\* id and the store alone: 200 with id, system_acronym, size, year and
\* created_at of the row, without its owner and without any scan event, when
\* the row exists, 404 when it does not; and it leaves the store unchanged.
C23_PublicLookup ==
    /\ [](\A r \in ReqIds :
            (req[r].pc = "done" /\ req[r].route = "codes" /\ ~req[r].fault) =>
                IF AskedRows(req[r]) = {}
                THEN req[r].status = 404 /\ req[r].code = NoRow
                ELSE /\ req[r].status = 200
                     /\ req[r].code.owner_user_id = ""
                     /\ req[r].scanEvent = NoEvent /\ req[r].list = <<>>
                     /\ \E c \in AskedRows(req[r]) :
                          /\ c.owner_user_id # ""
                          /\ req[r].code = [c EXCEPT !.owner_user_id = ""])
    /\ [][\A r \in ReqIds :
            (req[r].pc = "idle" /\ req'[r].route = "codes") =>
                (codes' = codes /\ scan_events' = scan_events)]_vars

\* A caller without identity asked for "a6f3hw7l" and got the row's public
\* fields.
C23_Witness ==
    \E r \in ReqIds :
        /\ req[r].pc = "done" /\ req[r].route = "codes" /\ req[r].userId = NoUser
        /\ req[r].status = 200 /\ req[r].code.id = UpperPattern
        /\ req[r].codeId = LowerPattern

\* C24: a scan-record request answered 200 adds exactly one event, with an id
\* no stored event has, and leaves the stored events in place; one that is
\* answered 400 or 401 adds none. No two stored events share an id.
C24_NoServerDedup ==
    /\ [](\A i \in 1..Len(scan_events) : \A j \in 1..Len(scan_events) :
            i # j => scan_events[i].id # scan_events[j].id)
    /\ [][\A r \in ReqIds :
            (/\ req[r].pc # "done" /\ req'[r].pc = "done"
             /\ req'[r].route \in RecordRoutes) =>
                /\ req'[r].status = 200 =>
                     /\ Len(scan_events') = Len(scan_events) + 1
                     /\ SubSeq(scan_events', 1, Len(scan_events)) = scan_events
                     /\ \A i \in 1..Len(scan_events) :
                          scan_events[i].id # scan_events'[Len(scan_events')].id
                /\ req'[r].status \in {400, 401} => scan_events' = scan_events]_vars

\* Two scans of the same payload by the same caller: two events, one code.
C24_Witness ==
    /\ Len(scan_events) = 2
    /\ scan_events[1].raw_payload = scan_events[2].raw_payload
    /\ scan_events[1].scanned_by_user_id = scan_events[2].scanned_by_user_id
    /\ scan_events[1].code_id = scan_events[2].code_id
    /\ scan_events[1].id # scan_events[2].id
    /\ Cardinality(codes) = 1

\* C29: for every payload the normalizer of POST /api/qr/scan and lib/qr
\* extractCodeId both reject, or both accept with the same id.
C29_OnePolicy ==
    normPc = "done" => (normRoute.ok = normLib.ok /\ normRoute.id = normLib.id)

\* Non-empty, A-Z and 0-9 only, 6 to 32 characters.
Canonical(id) ==
    /\ Len(id) >= 6 /\ Len(id) <= 32
    /\ \A i \in 1..Len(id) : id[i] \in UpperSet \cup DigitSet

\* C30: the id a scan-record request got from its normalizer, the id of every
\* row of codes and the code_id of every scan event is non-empty, of A-Z and
\* 0-9 only, and 6 to 32 characters long.
C30_CanonicalIds ==
    /\ \A c \in codes : Canonical(c.id)
    /\ \A i \in 1..Len(scan_events) : Canonical(scan_events[i].code_id)
    /\ \A r \in ReqIds :
         (req[r].route \in RecordRoutes /\ req[r].codeId # NoText) =>
             Canonical(req[r].codeId)

\* A row with an id of 13 characters, from "B7G4JX9M0123Z", and its event.
C30_Witness ==
    /\ \E c \in codes : Len(c.id) = 13
    /\ \E i \in 1..Len(scan_events) : Len(scan_events[i].code_id) = 13

----------------------------------------------------------------------------
(* The client debounce (spec.md 4.4).                                       *)

\* C25: on the scanner page a scan result with the text of the scan accepted
\* just before it, arriving less than 2 seconds after it, is rejected: of two
\* consecutive calls of addScan or recordScan with the same text the second
\* is at least 2 seconds after the first, whatever the timing of results,
\* request completions and timers.
C25_DuplicateRejected ==
    \A i \in 1..(Len(page.calls) - 1) :
        page.calls[i + 1].text = page.calls[i].text
            => page.calls[i + 1].at - page.calls[i].at >= RESET_DELAY

----------------------------------------------------------------------------
(* The reconciler (spec.md 4.4).                                            *)

\* The ids of the entries of a list.
IdsOf(list) == {list[i].id : i \in 1..Len(list)}

NoTwice(list) == \A i, j \in 1..Len(list) : list[i].id = list[j].id => i = j

\* The step of task t from pc a to pc b.
TaskStep(t, a, b) == hook.task[t].pc = a /\ hook'.task[t].pc = b

\* C26: a recordScan whose POST succeeded goes on to the refresh, and when
\* the refresh succeeds the local list becomes the server's response, entry
\* for entry: what the response does not hold is gone, the optimistic entry
\* included, and no entry is there twice.
C26_RefreshReplaces ==
    [][\A t \in TaskIds :
         /\ (hook.task[t].pc = "posted" /\ hook.task[t].status = 200
                /\ hook'.task[t] # hook.task[t])
              => hook'.task[t].pc = "get"
         /\ (TaskStep(t, "got", "resolved") /\ hook.task[t].kind = "record"
                /\ hook.task[t].listStatus = 200)
              => /\ hook'.scans = hook.task[t].data
                 /\ IdsOf(hook'.scans) = IdsOf(hook.task[t].data)
                 /\ NoTwice(hook'.scans)]_vars

\* A recordScan has returned after its refresh, and the optimistic entry of
\* a call still waiting for its own refresh is no longer in the list.
C26_Witness ==
    \E t, u \in TaskIds :
        /\ hook.task[t].pc = "resolved" /\ hook.task[t].kind = "record"
        /\ hook.task[u].pc \in {"get", "got"} /\ hook.task[u].kind = "record"
        /\ hook.task[u].scanEvent.id \notin IdsOf(hook.scans)
        /\ hook.scans # <<>>

\* C27: when the POST fails (no answer, 400, 401, 500) recordScan rejects and
\* leaves the local list alone: the step that rejects changes no entry, adds
\* no optimistic entry, and the call never sends a refresh.
C27_FailureKeepsList ==
    [][\A t \in TaskIds :
         /\ (hook.task[t].pc = "posted" /\ hook.task[t].status # 200
                /\ hook'.task[t] # hook.task[t])
              => /\ hook'.task[t].pc = "rejected"
                 /\ hook'.scans = hook.scans
                 /\ hook'.error # ""
         /\ (hook'.task[t] # hook.task[t] /\ hook'.task[t].pc = "posted"
                /\ hook'.task[t].status # 200)
              => hook'.scans = hook.scans
         /\ hook.task[t].pc = "rejected" => hook'.task[t].pc = "rejected"]_vars

\* A recordScan has rejected while the list holds entries.
C27_Witness ==
    \E t \in TaskIds : hook.task[t].pc = "rejected" /\ hook.scans # <<>>

\* C28: for every successful scan the returned record is at the head of the
\* local list when the refresh request of that scan goes out, and an entry
\* leaves the list or changes its place among the others only when the
\* response of a refresh is applied.
C28_PrependBeforeRefresh ==
    [][/\ \A t \in TaskIds :
            TaskStep(t, "posted", "get")
              => /\ hook'.scans = <<NewScan(hook.task[t])>> \o hook.scans
                 /\ hook'.task[t].scanEvent = hook.task[t].scanEvent
       /\ hook'.scans # hook.scans
            => \/ /\ Len(hook'.scans) = Len(hook.scans) + 1
                  /\ Tail(hook'.scans) = hook.scans
               \/ \E t \in TaskIds : TaskStep(t, "got", "resolved")]_vars

\* The optimistic entry heads the list while the refresh of its call is
\* still pending, and the list holds an older entry below it.
C28_Witness ==
    \E t \in TaskIds :
        /\ hook.task[t].pc = "get" /\ hook.task[t].kind = "record"
        /\ Len(hook.scans) > 1
        /\ hook.scans[1] = NewScan(hook.task[t])

----------------------------------------------------------------------------
(* Failure responses (spec.md 7).                                           *)

\* The reasons extractCodeId gives: one for each way a payload can fail.
ValidationReasons ==
    {ErrEmpty, ErrEmptyTrim, ErrNoSegment, ErrUrlParse, ErrTooShort, ErrTooLong,
     ErrBadChars}

\* The texts of the 500 responses to a failure of the store.
StorageMessages ==
    {"Database error while fetching code", "Database error while creating code",
     "Database error while recording scan",
     "Database error while checking for existing code",
     "Database error while creating code record",
     "Database error while recording scan event"}

\* A finished scan-record request whose payload, a non-empty string, was
\* given to the normalizer and rejected.
ValidationFailed(q) ==
    /\ q.pc = "done" /\ q.route \in RecordRoutes /\ q.status = 400
    /\ q.body.kind = "json" /\ q.body.payloadType = "string"
    /\ q.body.rawPayload # NoText

\* C31: the 400 response to a payload that fails validation carries the
\* reason of that failure, the one extractCodeId gives for it (empty, too
\* short, too long, invalid characters, unparseable URL), and the 500
\* response to a failure of the store carries one of the fixed generic texts.
C31_SpecificReason ==
    \A r \in ReqIds :
        /\ (ValidationFailed(req[r]) /\ ~extractCodeId(req[r].body.rawPayload).ok)
              => /\ req[r].error = extractCodeId(req[r].body.rawPayload).reason
                 /\ req[r].error \in ValidationReasons
        /\ (req[r].pc = "done" /\ req[r].route \in RecordRoutes /\ req[r].fault)
              => (req[r].status = 500 /\ req[r].error \in StorageMessages)

\* The URL payloads new URL() throws on: a space in the host, or no host at
\* all ("https://", "https:///", "https://?code=...").
Unparseable(parts) ==
    /\ parts.kind = "url"
    /\ parts.scheme \in {HttpPrefix, HttpsPrefix}
    /\ \/ parts.host = <<"h", "o", " ", "s", "t">>
       \/ parts.host = <<>> /\ parts.path \in { <<>>, <<"/">> }

\* C32: a payload that begins with http:// or https:// and is no URL is
\* rejected with the parse-error reason by the normalizer of either entry
\* point: it yields no id and is not taken as a plain identifier.
C32_UnparseableUrl ==
    (normPc = "done" /\ Unparseable(normParts)) =>
        /\ normLib = Reject(ErrUrlParse)
        /\ normRoute = Reject(ErrUrlParse)

\* A finished request that created its row of codes and whose insert into
\* scan_events failed.
EventFailedAfterCreate(q) ==
    q.pc = "done" /\ q.route \in RecordRoutes /\ q.created /\ q.fault

\* C33: no rollback.  When a scan-record request has inserted a new row of
\* codes and its insert into scan_events fails, the answer is 500, the step
\* that fails writes nothing, and the new row stays in codes, owned by the
\* caller of the failed request, also after the response has been sent; the
\* request has added no scan event.
C33_NoRollback ==
    /\ [](\A r \in ReqIds :
            EventFailedAfterCreate(req[r]) =>
                /\ req[r].status = 500
                /\ req[r].scanEvent = NoEvent
                /\ req[r].codeRecord \in codes
                /\ req[r].codeRecord.id = req[r].codeId
                /\ req[r].codeRecord.owner_user_id = req[r].userId)
    /\ [][\A r \in ReqIds :
            /\ (req[r].pc = "record" /\ req[r].created /\ req'[r].pc = "done"
                   /\ req'[r].fault)
                 => (codes' = codes /\ scan_events' = scan_events)
            /\ EventFailedAfterCreate(req[r]) => req[r].codeRecord \in codes']_vars

\* A request created the row of its id, failed to record its event and was
\* answered 500; the row is in codes and no scan event refers to it.
C33_Witness ==
    \E r \in ReqIds :
        /\ EventFailedAfterCreate(req[r]) /\ req[r].status = 500
        /\ req[r].codeRecord \in codes
        /\ \A i \in 1..Len(scan_events) : scan_events[i].code_id # req[r].codeId

----------------------------------------------------------------------------
(* The client view (spec.md 3, 4.4).                                        *)

\* The session's caller.
HookUser == "u1"

\* The answers GET /api/scan-events may give now: the caller's events, newest
\* first, at most LIST_LIMIT.
CurrentLists ==
    { Listed(EventsOf(HookUser), f) : f \in NewestFirst(EventsOf(HookUser)) }

\* C34: with one client session and no other writer, whenever no request of
\* the hook is in flight and the last refresh to complete succeeded (at rest:
\* the hook's error is clear), the local list is the server's current list
\* for the caller, whatever the order in which requests were answered.
C34_ReadAfterWrite ==
    (InFlight = {} /\ hook.error = "") => hook.scans \in CurrentLists

\* The message refreshScans puts in the hook's error.
RefreshError == "Failed to fetch scan events"

\* C35: when the POST of a recordScan succeeded and the refresh after it
\* fails, recordScan resolves: the failure is not thrown, the step leaves the
\* local list as it is, the optimistic entry and the entries behind it, and
\* the hook's error becomes the error of the refresh.
C35_RefreshFailureResolves ==
    [][\A t \in TaskIds :
         (hook.task[t].pc = "got" /\ hook.task[t].kind = "record"
            /\ hook.task[t].listStatus # 200 /\ hook'.task[t] # hook.task[t])
          => /\ hook'.task[t].pc = "resolved"
             /\ hook'.scans = hook.scans
             /\ hook'.error = RefreshError]_vars

\* Both calls of recordScan have resolved, the refresh of the second failed:
\* its entry heads the list and the first entry is behind it.
C35_Witness ==
    /\ \E t, u \in TaskIds :
         /\ t # u
         /\ hook.task[t].pc = "resolved" /\ hook.task[t].kind = "record"
         /\ hook.task[u].pc = "resolved" /\ hook.task[u].kind = "record"
    /\ hook.error = RefreshError
    /\ Len(hook.scans) = 2
    /\ hook.scans[1].id = 2 /\ hook.scans[2].id = 1

----------------------------------------------------------------------------
(* The scanner page's guards.                                               *)

\* C36: the database-backed scanner page never has two calls of recordScan
\* in flight: until the call of an accepted scan settles every further scan
\* result is dropped, whenever the reader's callbacks come relative to the
\* page's renders.
C36_OneRequestInFlight == page.pending <= 1

\* The reset timer the page holds is waiting and is due within 2 seconds.
TimerArmed ==
    \E tm \in page.timers :
        tm.id = page.scanTimeoutRef /\ tm.due <= page.clock + RESET_DELAY

\* C37: the duplicate guard releases.  While a payload is remembered and no
\* recording is going on, the reset timer is armed and due within 2 seconds;
\* and, requests settling and timers firing, every remembered payload is
\* cleared in the end, so that the same payload is accepted again.
C37_GuardReleases ==
    /\ []((page.lastScanRef # "" /\ page.pending = 0) => TimerArmed)
    /\ \A text \in ScanTexts :
         (page.lastScanRef = text) ~> (page.lastScanRef = "")

\* On the database-backed page the same payload was accepted twice in a row,
\* 2 seconds or more apart, and the guard has been released again after it.
C37_Witness ==
    /\ page.variant = "database"
    /\ Len(page.calls) = 2
    /\ page.calls[1].text = page.calls[2].text
    /\ page.calls[2].at - page.calls[1].at >= RESET_DELAY
    /\ page.lastScanRef = "" /\ page.pending = 0

\* C38: for every payload c that extractCodeId accepts, generateQRUrl(c) with
\* the default base URL returns a URL from which extractCodeId reads the id
\* it reads from c; for every payload extractCodeId rejects, generateQRUrl
\* throws and returns no URL.
C38_GenerateRoundTrip ==
    normPc = "url" =>
        IF normLib.ok
        THEN normUrl.ok /\ normBack = normLib
        ELSE ~normUrl.ok /\ normUrl.url = <<>>

\* A padded lower-case id was accepted, the URL generated for it is
\* https://app.example.com/s/A6F3HW7L, and the id was read back from it.
C38_Witness ==
    /\ normPc = "url"
    /\ normParts.kind = "plain" /\ normParts.padL = 1
    /\ normParts.core = LowerPattern
    /\ normUrl = Url(DefaultBaseUrl \o <<"/", "s", "/">> \o UpperPattern)
    /\ normBack = Accept(UpperPattern)

\* The raw values of the addScan calls since the last clearHistory, the
\* newest call first.
RECURSIVE RawsSinceClear(_)
RawsSinceClear(calls) ==
    IF calls = <<>> THEN <<>>
    ELSE LET last == calls[Len(calls)]
         IN  IF last.op = "clearHistory" THEN <<>>
             ELSE <<last.rawValue>> \o RawsSinceClear(SubSeq(calls, 1, Len(calls) - 1))

RawValues(scans) == [i \in 1..Len(scans) |-> scans[i].rawValue]

Clears(queue) == {i \in 1..Len(queue) : queue[i].op = "set"}

\* C39: once the queued updates are applied, the list holds one entry for
\* each addScan call since the last clearHistory (none after clearHistory),
\* newest first, each with the raw value of its call as it was given and an
\* id of its own; and updates that hold no clearHistory put their entries in
\* front of the entries the list had, which stay as they were and in the
\* same order.
C39_SessionHistory ==
    /\ [](history.queue = <<>> =>
            /\ RawValues(history.scans) = RawsSinceClear(history.calls)
            /\ \A i, j \in 1..Len(history.scans) :
                   history.scans[i].id = history.scans[j].id => i = j)
    /\ [][(history.queue # <<>> /\ history'.queue = <<>> /\ Clears(history.queue) = {}) =>
            /\ Len(history'.scans) = Len(history.scans) + Len(history.queue)
            /\ SubSeq(history'.scans, Len(history.queue) + 1, Len(history'.scans))
                 = history.scans]_vars

\* Four calls, the two addScan calls after the clearHistory made before the
\* component rendered: the list holds the padded lower-case value as it was
\* given, in front of the JSON value.
C39_Witness ==
    /\ history.queue = <<>>
    /\ Len(history.calls) = 4
    /\ history.calls[1].op = "addScan" /\ history.calls[2].op = "clearHistory"
    /\ RawValues(history.scans) = <<" a6f3hw7l", JsonRaw>>
    /\ history.scans[1].scannedAt = history.scans[2].scannedAt
    /\ history.scans[1].parsedJson = Undefined
    /\ history.scans[2].parsedJson # Undefined

====
